---------------------------- MODULE Spec2Model ----------------------------
(***************************************************************************)
(* UniformGrid: a dense, axis-aligned, point-sampled grid over 3-D space.   *)
(*                                                                         *)
(* The grid class itself (uniformGrid.h) is not among the sources; its     *)
(* geometry operations are modelled from the design document.  UnitTest    *)
(* is modelled from src/Space/uniformGridDiagnostics.cpp.                  *)
(*                                                                         *)
(* Floating-point coordinates are modelled as exact rationals <<n, d>>     *)
(* with d > 0, kept in lowest terms.                                       *)
(***************************************************************************)
EXTENDS Integers, Sequences, FiniteSets, TLC

VARIABLES geom, mContents, writes, last, loop, itemT, ENFORCE_SYMMETRIC_RANGE,
          files, exportLog,
          renderer, gVboSupported, gNumberOfProcessors, call, renders

gridVars == <<geom, mContents, writes, last, loop, itemT, ENFORCE_SYMMETRIC_RANGE>>
fileVars == <<files, exportLog>>
rendererVars == <<renderer, gVboSupported, gNumberOfProcessors, call, renders>>

vars == <<gridVars, fileVars, rendererVars>>

----------------------------------------------------------------------------
(* Bounds of the model. *)

\* Largest number of cells per axis a grid shape is given.
MaxCells == 2

\* Largest decimation factor tried.
MaxDecimation == 2

\* Random insertions (UnitTest, first block) made into one grid.
MaxWrites == 1

----------------------------------------------------------------------------
(* Exact rational arithmetic. *)

Abs(x) == IF x < 0 THEN -x ELSE x

RECURSIVE GCD(_, _)
GCD(a, b) == IF b = 0 THEN a ELSE GCD(b, a % b)

\* n/d in lowest terms with a positive denominator (d # 0).
Norm(n, d) ==
    LET g == GCD(Abs(n), Abs(d))
        s == IF d < 0 THEN -1 ELSE 1
    IN  <<s * (n \div g), s * (d \div g)>>

R(n, d) == Norm(n, d)
RInt(i) == <<i, 1>>
RZero == <<0, 1>>

RAdd(a, b) ==
    LET g == GCD(a[2], b[2])
        l == (a[2] \div g) * b[2]
    IN  Norm(a[1] * (l \div a[2]) + b[1] * (l \div b[2]), l)

RNeg(a) == <<-a[1], a[2]>>
RSub(a, b) == RAdd(a, RNeg(b))

RMul(a, b) ==
    LET x == Norm(a[1], b[2])
        y == Norm(b[1], a[2])
    IN  Norm(x[1] * y[1], x[2] * y[2])

\* a / b, b # 0.
RDiv(a, b) == RMul(a, Norm(b[2], b[1]))

RSign(a) == IF a[1] > 0 THEN 1 ELSE IF a[1] < 0 THEN -1 ELSE 0
RLt(a, b) == RSign(RSub(a, b)) < 0
RLe(a, b) == RSign(RSub(a, b)) <= 0

\* floor(a): \div rounds toward minus infinity for a positive divisor.
RFloor(a) == a[1] \div a[2]

Axes == 1..3

VAdd(u, v) == [i \in Axes |-> RAdd(u[i], v[i])]
VSub(u, v) == [i \in Axes |-> RSub(u[i], v[i])]
VScale(s, v) == [i \in Axes |-> RMul(s, v[i])]
VMulInt(idx, v) == [i \in Axes |-> RMul(RInt(idx[i]), v[i])]

----------------------------------------------------------------------------
(* Grid geometry. *)

GridIds == {"ugm", "ugm3b"}

\* Bounding boxes the grids are built over: the box of UnitTest's second and
\* third block (-vRange/2 .. vRange/2 with vRange = (2,3,5)), and a box like
\* the first block's, the bounding box of arbitrary points, whose corners
\* are no multiple of any spacing.
vRangeBox == [vMin |-> <<R(-1, 1), R(-3, 2), R(-5, 2)>>,
              vMax |-> <<R(1, 1), R(3, 2), R(5, 2)>>]
OddBox == [vMin |-> <<R(1, 3), RInt(-2), RZero>>,
           vMax |-> <<R(5, 3), R(-1, 2), RInt(7)>>]
Boxes == {vRangeBox, OddBox}

\* The box with its extent taken away on the given axes.
Flatten(box, axes) ==
    [vMin |-> box.vMin,
     vMax |-> [i \in Axes |-> IF i \in axes THEN box.vMin[i] ELSE box.vMax[i]]]

\* Bounding boxes with zero extent on one axis, on two, or on all three.
DegenerateBoxes ==
    {Flatten(box, axes) : box \in Boxes, axes \in (SUBSET Axes) \ {{}}}

\* Shapes: cells per axis.  The derivation of the per-axis counts from the
\* requested total is abstracted to any count in 1..MaxCells per axis.
Shapes == [Axes -> 1..MaxCells]

\* A default-constructed grid: no shape, no storage.
EmptyGeom ==
    [state |-> "empty",
     minCorner |-> <<RZero, RZero, RZero>>,
     maxCorner |-> <<RZero, RZero, RZero>>,
     numPoints |-> <<0, 0, 0>>,
     cellSpacing |-> <<RZero, RZero, RZero>>]

GetNumPoints(G, i) == G.numPoints[i]
GetNumCells(G, i) == G.numPoints[i] - 1
GetExtent(G) == VSub(G.maxCorner, G.minCorner)
GetCellSpacing(G) == G.cellSpacing
GetGridCapacity(G) == G.numPoints[1] * G.numPoints[2] * G.numPoints[3]

\* cellSpacing[i] = (maxCorner[i] - minCorner[i]) / (numPoints[i] - 1)
PrecomputeSpacing(minC, maxC, numPoints) ==
    [i \in Axes |-> RDiv(RSub(maxC[i], minC[i]), RInt(numPoints[i] - 1))]

\* Mutant of DefineShape: no special case for an axis of zero extent.
DefineShape_NoSpecialCase(box, cells) ==
    LET np == [i \in Axes |-> cells[i] + 1]
    IN  [state |-> "shaped",
         minCorner |-> box.vMin,
         maxCorner |-> box.vMax,
         numPoints |-> np,
         cellSpacing |-> PrecomputeSpacing(box.vMin, box.vMax, np)]

\* Geometry over box with the given cells per axis; points = cells + 1.  An
\* axis on which the box has no extent is given the single-cell span, 2
\* points, whatever count was derived for it.
DefineShape(box, cells) ==
    LET np == [i \in Axes |->
                  IF box.vMax[i] = box.vMin[i] THEN 2 ELSE cells[i] + 1]
    IN  [state |-> "shaped",
         minCorner |-> box.vMin,
         maxCorner |-> box.vMax,
         numPoints |-> np,
         cellSpacing |-> PrecomputeSpacing(box.vMin, box.vMax, np)]

\* Value of an element that was allocated and not written since.
NoValue == -1

\* Storage of n elements, offsets 0..n-1.
NewContents(n) == [o \in 0..(n - 1) |-> NoValue]

Size(c) == Cardinality(DOMAIN c)

----------------------------------------------------------------------------
(* Index algebra. *)

Clamp(x, lo, hi) == IF x < lo THEN lo ELSE IF x > hi THEN hi ELSE x

\* offset = ix + numPoints[0]*(iy + numPoints[1]*iz)
OffsetFromIndices(G, idx) ==
    idx[1] + GetNumPoints(G, 1) * (idx[2] + GetNumPoints(G, 2) * idx[3])

\* The inverse of the flattening, X fastest, then Y, then Z.
IndicesFromOffset(G, offset) ==
    LET numXY == GetNumPoints(G, 1) * GetNumPoints(G, 2)
        iz == offset \div numXY
        iy == (offset - iz * numXY) \div GetNumPoints(G, 1)
        ix == offset - GetNumPoints(G, 1) * (iy + GetNumPoints(G, 2) * iz)
    IN  <<ix, iy, iz>>

\* Mutant of IndicesOfPosition: clamped to the cell count, not the point count.
IndicesOfPosition_ClampCells(G, pos) ==
    [i \in Axes |->
        Clamp(RFloor(RDiv(RSub(pos[i], G.minCorner[i]), G.cellSpacing[i])),
              0, GetNumCells(G, i) - 1)]

\* floor((pos - minCorner)/cellSpacing) per axis, clamped to [0, numPoints-1].
IndicesOfPosition(G, pos) ==
    [i \in Axes |->
        Clamp(RFloor(RDiv(RSub(pos[i], G.minCorner[i]), G.cellSpacing[i])),
              0, GetNumPoints(G, i) - 1)]

OffsetOfPosition(G, pos) == OffsetFromIndices(G, IndicesOfPosition(G, pos))

\* Mutant of PositionFromOffset: the centre of the cell.
PositionFromOffset_Center(G, offset) ==
    VAdd(VAdd(G.minCorner, VMulInt(IndicesFromOffset(G, offset), G.cellSpacing)),
         VScale(R(1, 2), G.cellSpacing))

\* Minimum corner of the cell: minCorner + indices*cellSpacing.
PositionFromOffset(G, offset) ==
    VAdd(G.minCorner, VMulInt(IndicesFromOffset(G, offset), G.cellSpacing))

----------------------------------------------------------------------------
(* UnitTest's own arithmetic (src/Space/uniformGridDiagnostics.cpp). *)

\* FLT_EPSILON of a 32-bit float, 2^-23.
FLT_EPSILON == <<1, 8388608>>

\* Mutant of NextIdx: the y loop nested innermost.
NextIdx_YInnermost(G, idx) ==
    IF idx[2] + 1 < GetNumPoints(G, 2) THEN <<idx[1], idx[2] + 1, idx[3]>>
    ELSE IF idx[1] + 1 < GetNumPoints(G, 1) THEN <<idx[1] + 1, 0, idx[3]>>
    ELSE <<0, 0, idx[3] + 1>>

\* The nested loops of UnitTest: idx[2] outermost, idx[0] innermost.
NextIdx(G, idx) ==
    IF idx[1] + 1 < GetNumPoints(G, 1) THEN <<idx[1] + 1, idx[2], idx[3]>>
    ELSE IF idx[2] + 1 < GetNumPoints(G, 2) THEN <<0, idx[2] + 1, idx[3]>>
    ELSE <<0, 0, idx[3] + 1>>

LoopExhausted(G, idx) == ~(idx[3] < GetNumPoints(G, 3))

\* Mutant of OffsetXYZ: the row stride taken from the y axis.
OffsetXYZ_StrideY(G, idx) ==
    LET numXY == GetNumPoints(G, 1) * GetNumPoints(G, 2)
        offsetZ == idx[3] * numXY
        offsetYZ == idx[2] * GetNumPoints(G, 2) + offsetZ
    IN  idx[1] + offsetYZ

\* offsetXYZ = idx[0] + (idx[1]*numPoints(0) + idx[2]*numXY)
OffsetXYZ(G, idx) ==
    LET numXY == GetNumPoints(G, 1) * GetNumPoints(G, 2)
        offsetZ == idx[3] * numXY
        offsetYZ == idx[2] * GetNumPoints(G, 1) + offsetZ
    IN  idx[1] + offsetYZ

\* Nudge = 2 * FLT_EPSILON * extent: shifts a query point slightly inside.
Nudge(G) == VScale(RMul(RInt(2), FLT_EPSILON), GetExtent(G))

\* Position inside cell idx, near its minimal corner.
CellPosMin(G, vMin, idx) ==
    VAdd(VAdd(vMin, VMulInt(idx, GetCellSpacing(G))), Nudge(G))

\* Mutant of CellPosMax: the nudge taken back once, not twice, which puts
\* the point on the next grid point.
CellPosMax_OneNudge(G, vMin, idx) ==
    VSub(VAdd(VAdd(VAdd(vMin, VMulInt(idx, GetCellSpacing(G))), Nudge(G)),
              GetCellSpacing(G)),
         Nudge(G))

\* Position inside cell idx, near its maximal corner.
CellPosMax(G, vMin, idx) ==
    VSub(VAdd(CellPosMin(G, vMin, idx), GetCellSpacing(G)),
         VScale(RInt(2), Nudge(G)))

\* vSpacing: the spacing UnitTest computes directly from the box and the
\* point counts, to compare with the grid's.
DirectSpacing(vMin, vMax, G) ==
    [i \in Axes |-> RDiv(RSub(vMax[i], vMin[i]), RInt(GetNumPoints(G, i) - 1))]

\* Mutant of CellCenter: the half cell subtracted.
CellCenter_MinusHalf(G, vMin, idx) ==
    LET vOffset == VSub(vMin, VScale(R(1, 2), GetCellSpacing(G)))
    IN  VAdd(vOffset, VMulInt(idx, GetCellSpacing(G)))

\* vOffset + idx*spacing with vOffset = vMin + 0.5*spacing: centre of cell idx.
CellCenter(G, vMin, idx) ==
    LET vOffset == VAdd(vMin, VScale(R(1, 2), GetCellSpacing(G)))
    IN  VAdd(vOffset, VMulInt(idx, GetCellSpacing(G)))

\* The positions given to the grid for insertion: the box is the bounding
\* box of the points, which lie on its faces and inside.  On each axis the
\* point is at vMin, halfway, or at vMax.
InsertFractions == {R(0, 1), R(1, 2), R(1, 1)}

RandomPositions(G) ==
    {[i \in Axes |-> RAdd(G.minCorner[i], RMul(t[i], GetExtent(G)[i]))] :
     t \in [Axes -> InsertFractions]}

----------------------------------------------------------------------------
(* State.                                                                  *)
(*   geom, mContents: geometry and storage of each grid;                   *)
(*   itemT: the type of the stored elements (the template argument);       *)
(*   ENFORCE_SYMMETRIC_RANGE: the build's setting of that macro, which     *)
(*     only the exporters of float and Vec3 grids consult;                 *)
(*   writes, last, loop: insertions made, the last operation's record,     *)
(*     and the position of a running loop of UnitTest;                     *)
(*   files: the files that exist, each with its content and the number of  *)
(*     FILE handles open on it; exportLog: the export calls made so far;   *)
(*   renderer: the members of the ParticleRenderer; gVboSupported and      *)
(*     gNumberOfProcessors: the globals it reads; call: the Render call in *)
(*     progress; renders: the Render calls made so far.                    *)

NoLoop == [kind |-> "none"]
NoQuery == [kind |-> "none"]

\* No file exists.
NoFiles == [name \in {} |-> 0]

\* ParticleRenderer::ParticleRenderer: no buffer, no index map.
NewRenderer ==
    [mVertexBuffer |-> 0,
     mVertexBufferCapacity |-> 0,
     mIndices |-> 0,
     mIndicesCapacity |-> 0,
     mVboNames0 |-> 0]

NoCall == [pc |-> "idle"]

\* Nothing exported yet, and a renderer nobody has called.
InitFilesAndRenderer ==
    /\ files = NoFiles
    /\ exportLog = <<>>
    /\ renderer = NewRenderer
    /\ gVboSupported = FALSE
    /\ gNumberOfProcessors = 1
    /\ call = NoCall
    /\ renders = 0

Init ==
    /\ geom = [g \in GridIds |-> EmptyGeom]
    /\ mContents = [g \in GridIds |-> <<>>]
    /\ writes = [g \in GridIds |-> 0]
    /\ last = NoQuery
    /\ loop = NoLoop
    /\ itemT = "unsigned"
    /\ ENFORCE_SYMMETRIC_RANGE = FALSE
    /\ InitFilesAndRenderer

\* Mutant of ElementAtPosition: the indices flattened z fastest.
ElementAtPosition_ZFastest(G, pos) ==
    LET idx == IndicesOfPosition(G, pos)
    IN  idx[3] + GetNumPoints(G, 3) * (idx[2] + GetNumPoints(G, 2) * idx[1])

\* The storage element operator[]( position ) denotes.
ElementAtPosition(G, pos) == OffsetOfPosition(G, pos)

\* UniformGrid<unsigned> ugm( num , vMin , vMax , true ): a grid is given its
\* shape over a bounding box.
Construct(g, box, cells) ==
    /\ loop.kind = "none"
    /\ geom[g].state = "empty"
    /\ geom' = [geom EXCEPT ![g] = DefineShape(box, cells)]
    /\ mContents' = [mContents EXCEPT ![g] = <<>>]
    /\ writes' = [writes EXCEPT ![g] = 0]
    /\ last' = NoQuery
    /\ UNCHANGED <<loop, itemT, ENFORCE_SYMMETRIC_RANGE,
                   fileVars, rendererVars>>

\* A grid that has a shape is resized to other point counts over its box:
\* its contents are discarded and its spacing is computed again.
Resize(g, cells) ==
    /\ loop.kind = "none"
    /\ geom[g].state # "empty"
    /\ geom' = [geom EXCEPT ![g] =
                    DefineShape([vMin |-> geom[g].minCorner,
                                 vMax |-> geom[g].maxCorner], cells)]
    /\ mContents' = [mContents EXCEPT ![g] = <<>>]
    /\ writes' = [writes EXCEPT ![g] = 0]
    /\ last' = NoQuery
    /\ UNCHANGED <<loop, itemT, ENFORCE_SYMMETRIC_RANGE,
                   fileVars, rendererVars>>

\* ugm.Init(): allocate the storage the shape needs.
InitGrid(g) ==
    /\ loop.kind = "none"
    /\ geom[g].state = "shaped"
    /\ geom' = [geom EXCEPT ![g].state = "ready"]
    /\ mContents' = [mContents EXCEPT ![g] = NewContents(GetGridCapacity(geom[g]))]
    /\ UNCHANGED <<writes, last, loop, itemT, ENFORCE_SYMMETRIC_RANGE,
                   fileVars, rendererVars>>

\* ugm[ vPositions[ idx ] ] = idx: insert the idx-th point by position,
\* right after Init.
WriteAtPosition(g, pos) ==
    LET G == geom[g]
        off == ElementAtPosition(G, pos)
    IN  /\ loop.kind = "none"
        /\ last.kind \in {"none", "write"}
        /\ G.state = "ready"
        /\ writes[g] < MaxWrites
        /\ mContents' = [mContents EXCEPT ![g][off] = writes[g]]
        /\ writes' = [writes EXCEPT ![g] = @ + 1]
        /\ last' = [kind |-> "write", g |-> g, pos |-> pos, value |-> writes[g],
                    offset |-> off]
        /\ UNCHANGED <<geom, loop, itemT, ENFORCE_SYMMETRIC_RANGE,
                       fileVars, rendererVars>>

\* First block of UnitTest: iterate through each cell of the grid.  The loop
\* neither reads nor writes the stored values; it is started on a grid
\* without insertions.
CellsStart(g) ==
    /\ loop.kind = "none"
    /\ geom[g].state = "ready"
    /\ writes[g] = 0
    /\ loop' = [kind |-> "cells", g |-> g, idx |-> <<0, 0, 0>>]
    /\ last' = NoQuery
    /\ UNCHANGED <<geom, mContents, writes, itemT, ENFORCE_SYMMETRIC_RANGE,
                   fileVars, rendererVars>>

\* One iteration of the innermost loop body.
CellStep ==
    /\ loop.kind = "cells"
    /\ LET G == geom[loop.g]
           idx == loop.idx
           vPosMin == CellPosMin(G, G.minCorner, idx)
           vPosMax == CellPosMax(G, G.minCorner, idx)
       IN  /\ ~LoopExhausted(G, idx)
           /\ last' = [kind |-> "cell", g |-> loop.g, idx |-> idx,
                       offsetXYZ |-> OffsetXYZ(G, idx),
                       offsetFromIndices |-> OffsetFromIndices(G, idx),
                       vPosMin |-> vPosMin,
                       vPosMax |-> vPosMax,
                       indicesFromPosMin |-> IndicesOfPosition(G, vPosMin),
                       offsetOfPosMin |-> OffsetOfPosition(G, vPosMin),
                       contentsFromPosMin |-> ElementAtPosition(G, vPosMin),
                       indicesFromPosMax |-> IndicesOfPosition(G, vPosMax),
                       offsetOfPosMax |-> OffsetOfPosition(G, vPosMax),
                       \* the second block of the body takes ugm[ vPosMin ] again
                       contentsFromPosMax |-> ElementAtPosition(G, vPosMin)]
           /\ loop' = [loop EXCEPT !.idx = NextIdx(G, idx)]
    /\ UNCHANGED <<geom, mContents, writes, itemT, ENFORCE_SYMMETRIC_RANGE,
                   fileVars, rendererVars>>

CellsFinish ==
    /\ loop.kind = "cells"
    /\ LoopExhausted(geom[loop.g], loop.idx)
    /\ loop' = NoLoop
    /\ last' = [kind |-> "cellsEnd", g |-> loop.g]
    /\ UNCHANGED <<geom, mContents, writes, itemT, ENFORCE_SYMMETRIC_RANGE,
                   fileVars, rendererVars>>

\* Second block of UnitTest: insert a value at the centre of each cell of a
\* freshly initialised grid.
CenterStart(g) ==
    /\ loop.kind = "none"
    /\ geom[g].state = "ready"
    /\ writes[g] = 0
    /\ loop' = [kind |-> "center", g |-> g, idx |-> <<0, 0, 0>>, counter |-> 0]
    /\ last' = [kind |-> "centerStart", g |-> g,
                vSpacing |-> DirectSpacing(geom[g].minCorner, geom[g].maxCorner, geom[g])]
    /\ UNCHANGED <<geom, mContents, writes, itemT, ENFORCE_SYMMETRIC_RANGE,
                   fileVars, rendererVars>>

CenterStep ==
    /\ loop.kind = "center"
    /\ LET G == geom[loop.g]
           idx == loop.idx
           counter == loop.counter
           vPos == CellCenter(G, G.minCorner, idx)
       IN  /\ ~LoopExhausted(G, idx)
           /\ mContents' = [mContents EXCEPT
                              ![loop.g][ElementAtPosition(G, vPos)] = counter]
           /\ last' = [kind |-> "center", g |-> loop.g, idx |-> idx,
                       counter |-> counter,
                       vPos |-> vPos,
                       indices |-> IndicesFromOffset(G, counter),
                       vPosCheck |-> PositionFromOffset(G, counter)]
           /\ loop' = [loop EXCEPT !.idx = NextIdx(G, idx), !.counter = counter + 1]
    /\ UNCHANGED <<geom, writes, itemT, ENFORCE_SYMMETRIC_RANGE,
                   fileVars, rendererVars>>

CenterFinish ==
    /\ loop.kind = "center"
    /\ LoopExhausted(geom[loop.g], loop.idx)
    /\ loop' = NoLoop
    /\ last' = [kind |-> "centerEnd", g |-> loop.g, counter |-> loop.counter,
                capacity |-> GetGridCapacity(geom[loop.g])]
    /\ UNCHANGED <<geom, mContents, writes, itemT, ENFORCE_SYMMETRIC_RANGE,
                   fileVars, rendererVars>>

\* A grid takes the geometry of another (a same-shaped auxiliary grid); its
\* storage is allocated by a later Init.
CopyShape(dst, src) ==
    /\ loop.kind = "none"
    /\ dst # src
    /\ geom[src].state # "empty"
    /\ geom' = [geom EXCEPT ![dst] = [geom[src] EXCEPT !.state = "shaped"]]
    /\ mContents' = [mContents EXCEPT ![dst] = <<>>]
    /\ writes' = [writes EXCEPT ![dst] = 0]
    /\ last' = NoQuery
    /\ UNCHANGED <<loop, itemT, ENFORCE_SYMMETRIC_RANGE,
                   fileVars, rendererVars>>

\* Mutant of DecimatedGeom: the spacing of the source kept.
DecimatedGeom_StaleSpacing(S, iDecimation) ==
    [state |-> "ready",
     minCorner |-> S.minCorner,
     maxCorner |-> S.maxCorner,
     numPoints |-> [i \in Axes |-> (GetNumCells(S, i) \div iDecimation) + 1],
     cellSpacing |-> S.cellSpacing]

\* Mutant of DecimatedGeom: the point count divided, not the cell count.
DecimatedGeom_DividePoints(S, iDecimation) ==
    LET np == [i \in Axes |-> (GetNumPoints(S, i) \div iDecimation) + 1]
    IN  [state |-> "ready",
         minCorner |-> S.minCorner,
         maxCorner |-> S.maxCorner,
         numPoints |-> np,
         cellSpacing |-> PrecomputeSpacing(S.minCorner, S.maxCorner, np)]

\* Mutant of DecimatedGeom: the coarse grid keeps the source's spacing and
\* covers only as many source cells as it has cells of its own.
DecimatedGeom_ShrunkBox(S, iDecimation) ==
    LET np == [i \in Axes |-> (GetNumCells(S, i) \div iDecimation) + 1]
        maxC == [i \in Axes |->
                    RAdd(S.minCorner[i], RMul(RInt(np[i] - 1), S.cellSpacing[i]))]
    IN  [state |-> "ready",
         minCorner |-> S.minCorner,
         maxCorner |-> maxC,
         numPoints |-> np,
         cellSpacing |-> PrecomputeSpacing(S.minCorner, maxC, np)]

\* The geometry dst.Decimate( src , iDecimation ) gives dst: the box of src,
\* src's cells per axis divided by the factor, points = cells + 1.
DecimatedGeom(S, iDecimation) ==
    LET np == [i \in Axes |-> (GetNumCells(S, i) \div iDecimation) + 1]
    IN  [state |-> "ready",
         minCorner |-> S.minCorner,
         maxCorner |-> S.maxCorner,
         numPoints |-> np,
         cellSpacing |-> PrecomputeSpacing(S.minCorner, S.maxCorner, np)]

\* Mutant of DecimatedContents: one element per cell, not per point.
DecimatedContents_PerCell(D) ==
    NewContents(GetNumCells(D, 1) * GetNumCells(D, 2) * GetNumCells(D, 3))

\* The storage the decimated grid holds.
DecimatedContents(D) == NewContents(GetGridCapacity(D))

\* The factors Decimate is defined for: those dividing every cell count.
Divides(S, iDecimation) ==
    \A i \in Axes : GetNumCells(S, i) % iDecimation = 0

\* ugm3b.Decimate( ugm3a , decimation )
Decimate(dst, src, iDecimation) ==
    /\ loop.kind = "none"
    /\ dst # src
    /\ geom[src].state # "empty"
    /\ Divides(geom[src], iDecimation)
    /\ geom' = [geom EXCEPT ![dst] = DecimatedGeom(geom[src], iDecimation)]
    /\ mContents' = [mContents EXCEPT ![dst] = DecimatedContents(geom'[dst])]
    /\ writes' = [writes EXCEPT ![dst] = 0]
    /\ last' = [kind |-> "decimate", dst |-> dst, src |-> src,
                iDecimation |-> iDecimation]
    /\ UNCHANGED <<loop, itemT, ENFORCE_SYMMETRIC_RANGE,
                   fileVars, rendererVars>>

----------------------------------------------------------------------------
(* ComputeStatistics (src/Space/uniformGridDiagnostics.cpp and              *)
(* src/Sim/Vorton/vortonGridDiagnostics.cpp).                               *)
(*                                                                         *)
(* A float element is a rational, a Vec3 element a triple of rationals, a  *)
(* Vorton element a record of two triples, mPosition and mVorticity.       *)

\* FLT_MAX and FLT_MIN of <float.h>, (2 - 2^-23) * 2^127 and 2^-126, are
\* beyond the integers of the checker.  They enter the code only through
\* comparisons with stored values and with differences of stored values;
\* they are modelled by 2^20 and 2^-20, above every stored magnitude and
\* below every positive difference of the elements the model stores.
FLT_MAX == <<1048576, 1>>
FLT_MIN == <<1, 1048576>>

\* e, with x evaluated first.  The checker evaluates the argument of an
\* operator where it is used; a fold that hands on its running value
\* without using it would leave a chain of pending evaluations as long as
\* the storage.
Strict(x, e) == IF x = x THEN e ELSE e

MIN2(x, y) == IF RLt(x, y) THEN x ELSE y
MAX2(x, y) == IF RLt(y, x) THEN x ELSE y

VNeg(v) == <<RNeg(v[1]), RNeg(v[2]), RNeg(v[3])>>

Vec3Of(x) == <<x, x, x>>

\* Per-component minimum and maximum of two Vec3.
VMin2(u, v) == <<MIN2(u[1], v[1]), MIN2(u[2], v[2]), MIN2(u[3], v[3])>>
VMax2(u, v) == <<MAX2(u[1], v[1]), MAX2(u[2], v[2]), MAX2(u[3], v[3])>>

\* Mutant of AccumulateVec3: the maximum of y folded from the x component.
AccumulateVec3_MaxYFromX(acc, rVal) ==
    [min |-> VMin2(acc.min, rVal),
     max |-> <<MAX2(acc.max[1], rVal[1]), MAX2(acc.max[2], rVal[1]),
               MAX2(acc.max[3], rVal[3])>>]

\* min.x = MIN2( min.x , rVal.x ) ; ... ; max.z = MAX2( max.z , rVal.z )
AccumulateVec3(acc, rVal) ==
    [min |-> VMin2(acc.min, rVal),
     max |-> VMax2(acc.max, rVal)]

\* Mutant of StatsOffset: the row stride taken from dims[1].
StatsOffset_StrideY(G, index) ==
    LET numXY == GetNumPoints(G, 1) * GetNumPoints(G, 2)
        offsetPartialZ == numXY * index[3]
        offsetPartialYZ == GetNumPoints(G, 2) * index[2] + offsetPartialZ
    IN  index[1] + offsetPartialYZ

\* offset = index[0] + ( dims[0] * index[1] + numXY * index[2] )
StatsOffset(G, index) ==
    LET numXY == GetNumPoints(G, 1) * GetNumPoints(G, 2)
        offsetPartialZ == numXY * index[3]
        offsetPartialYZ == GetNumPoints(G, 1) * index[2] + offsetPartialZ
    IN  index[1] + offsetPartialYZ

\* The offsets the three nested loops of ComputeStatistics read, in the
\* order they read them: index[2] outermost, index[0] innermost.
RECURSIVE VisitsFrom(_, _)
VisitsFrom(G, index) ==
    IF LoopExhausted(G, index) THEN <<>>
    ELSE <<StatsOffset(G, index)>> \o VisitsFrom(G, NextIdx(G, index))

VisitsVec3(G) == VisitsFrom(G, <<0, 0, 0>>)

\* for( offset = 0 ; offset < numGridPoints ; ++ offset )
VisitsLinear(numGridPoints) == [i \in 1..numGridPoints |-> i - 1]

\* The fold of the elements at the given offsets, in the given order.
RECURSIVE FoldVec3(_, _, _)
FoldVec3(contents, visits, acc) ==
    IF visits = <<>> THEN acc
    ELSE LET next == AccumulateVec3(acc, contents[Head(visits)])
         IN  Strict(next, FoldVec3(contents, Tail(visits), next))

\* min = Vec3( FLT_MAX , FLT_MAX , FLT_MAX ) ; max = Vec3( -min )
InitialVec3Stats == [min |-> Vec3Of(FLT_MAX), max |-> VNeg(Vec3Of(FLT_MAX))]

\* UniformGrid<Vec3>::ComputeStatistics( min , max )
StatisticsVec3(G, contents) ==
    FoldVec3(contents, VisitsVec3(G), InitialVec3Stats)

\* Mutant of AccumulateVorton: the vorticity minimum folded from the
\* position.
AccumulateVorton_VorticityFromPosition(acc, rVorton) ==
    [min |-> [mPosition |-> VMin2(acc.min.mPosition, rVorton.mPosition),
              mVorticity |-> VMin2(acc.min.mVorticity, rVorton.mPosition)],
     max |-> [mPosition |-> VMax2(acc.max.mPosition, rVorton.mPosition),
              mVorticity |-> VMax2(acc.max.mVorticity, rVorton.mVorticity)]]

\* One iteration of the loop over the vortons: position and vorticity are
\* each folded per component.
AccumulateVorton(acc, rVorton) ==
    [min |-> [mPosition |-> VMin2(acc.min.mPosition, rVorton.mPosition),
              mVorticity |-> VMin2(acc.min.mVorticity, rVorton.mVorticity)],
     max |-> [mPosition |-> VMax2(acc.max.mPosition, rVorton.mPosition),
              mVorticity |-> VMax2(acc.max.mVorticity, rVorton.mVorticity)]]

RECURSIVE FoldVorton(_, _, _)
FoldVorton(contents, visits, acc) ==
    IF visits = <<>> THEN acc
    ELSE LET next == AccumulateVorton(acc, contents[Head(visits)])
         IN  Strict(next, FoldVorton(contents, Tail(visits), next))

\* min = Vorton( vMax , vMax ) ; max = Vorton( -vMax , -vMax )
InitialVortonStats ==
    [min |-> [mPosition |-> Vec3Of(FLT_MAX), mVorticity |-> Vec3Of(FLT_MAX)],
     max |-> [mPosition |-> VNeg(Vec3Of(FLT_MAX)),
              mVorticity |-> VNeg(Vec3Of(FLT_MAX))]]

\* UniformGrid<Vorton>::ComputeStatistics( min , max )
StatisticsVorton(contents) ==
    FoldVorton(contents, VisitsLinear(Size(contents)), InitialVortonStats)

\* The reduction of a grid of floats: a fold of MIN2 and MAX2 over every
\* element, from the fMin = FLT_MAX, fMax = -fMin the exporter passes in.
\* The visits are folded in their order, the first half before the second.
RECURSIVE FoldFloat(_, _, _)
FoldFloat(contents, visits, acc) ==
    IF visits = <<>> THEN acc
    ELSE IF Len(visits) = 1
    THEN [min |-> MIN2(acc.min, contents[visits[1]]),
          max |-> MAX2(acc.max, contents[visits[1]])]
    ELSE LET half == Len(visits) \div 2
             first == FoldFloat(contents, SubSeq(visits, 1, half), acc)
         IN  Strict(first,
                    FoldFloat(contents, SubSeq(visits, half + 1, Len(visits)), first))

StatisticsFloat(contents) ==
    FoldFloat(contents, VisitsLinear(Size(contents)),
              [min |-> FLT_MAX, max |-> RNeg(FLT_MAX)])

----------------------------------------------------------------------------
(* Grids of floats, of Vec3 and of Vortons: their contents, and the        *)
(* standalone calls of ComputeStatistics.                                  *)

ItemTypes == {"float", "Vec3", "Vorton"}

\* Values the physics layer stores: zero, negative and positive components,
\* vectors of rational and of irrational length.
SampleFloats == {RZero, RInt(-3), R(1, 2), RInt(4)}

SampleVectors ==
    {Vec3Of(RZero),
     <<RInt(3), RInt(-4), RZero>>,
     <<RInt(-1), R(1, 2), RInt(2)>>,
     <<RInt(1), RInt(2), RInt(2)>>}

SamplePositions == {Vec3Of(RZero), <<R(1, 2), RInt(-1), RInt(2)>>}

SampleVorticities == {Vec3Of(RZero), <<RInt(3), RInt(-4), RZero>>}

SampleVortons ==
    {[mPosition |-> p, mVorticity |-> w] :
        p \in SamplePositions, w \in SampleVorticities}

Samples(t) ==
    IF t = "float" THEN SampleFloats
    ELSE IF t = "Vec3" THEN SampleVectors
    ELSE SampleVortons

\* Cells per axis of the grid holding the items: 3 x 2 x 2 points.
ItemGridCells == <<2, 1, 1>>

\* The offsets written to: the first element, one in the middle and the
\* last one.
SampleOffsets == {0, 5, 11}

\* A grid of items after Init, every element holding the same value.
InitItems ==
    /\ itemT \in ItemTypes
    /\ ENFORCE_SYMMETRIC_RANGE \in BOOLEAN
    /\ geom = [[g \in GridIds |-> EmptyGeom] EXCEPT
                  !["ugm"] = [DefineShape(vRangeBox, ItemGridCells)
                                 EXCEPT !.state = "ready"]]
    /\ \E v \in Samples(itemT) :
          mContents = [[g \in GridIds |-> <<>>] EXCEPT
                          !["ugm"] = [o \in 0..(GetGridCapacity(geom["ugm"]) - 1)
                                          |-> v]]
    /\ writes = [g \in GridIds |-> 0]
    /\ last = NoQuery
    /\ loop = NoLoop
    /\ InitFilesAndRenderer

\* (*this)[ offset ] = v: the physics layer writes one element.
SetItem(g, offset, v) ==
    /\ loop.kind = "none"
    /\ last.kind = "none"
    /\ geom[g].state = "ready"
    /\ writes[g] < MaxWrites
    /\ offset \in DOMAIN mContents[g]
    /\ mContents' = [mContents EXCEPT ![g][offset] = v]
    /\ writes' = [writes EXCEPT ![g] = @ + 1]
    /\ UNCHANGED <<geom, last, loop, itemT, ENFORCE_SYMMETRIC_RANGE,
                   fileVars, rendererVars>>

\* Mutant of ComputeStatisticsVec3: the running minimum is stored back into
\* the first element.
ComputeStatisticsVec3_WritesBack(g) ==
    /\ loop.kind = "none"
    /\ itemT = "Vec3"
    /\ geom[g].state = "ready"
    /\ LET stats == StatisticsVec3(geom[g], mContents[g])
       IN  /\ last' = [kind |-> "stats", g |-> g,
                       visits |-> VisitsVec3(geom[g]),
                       min |-> stats.min, max |-> stats.max]
           /\ mContents' = [mContents EXCEPT ![g][0] = stats.min]
    /\ UNCHANGED <<geom, writes, loop, itemT, ENFORCE_SYMMETRIC_RANGE,
                   fileVars, rendererVars>>

\* grid.ComputeStatistics( min , max ) on a grid of Vec3: a const member
\* that reads every element and writes its two arguments.
ComputeStatisticsVec3(g) ==
    /\ loop.kind = "none"
    /\ itemT = "Vec3"
    /\ geom[g].state = "ready"
    /\ LET stats == StatisticsVec3(geom[g], mContents[g])
       IN  last' = [kind |-> "stats", g |-> g,
                    visits |-> VisitsVec3(geom[g]),
                    min |-> stats.min, max |-> stats.max]
    /\ UNCHANGED <<geom, mContents, writes, loop, itemT, ENFORCE_SYMMETRIC_RANGE,
                   fileVars, rendererVars>>

\* grid.ComputeStatistics( min , max ) on a grid of Vortons.
ComputeStatisticsVorton(g) ==
    /\ loop.kind = "none"
    /\ itemT = "Vorton"
    /\ geom[g].state = "ready"
    /\ LET stats == StatisticsVorton(mContents[g])
       IN  last' = [kind |-> "stats", g |-> g,
                    visits |-> VisitsLinear(Size(mContents[g])),
                    min |-> stats.min, max |-> stats.max]
    /\ UNCHANGED <<geom, mContents, writes, loop, itemT, ENFORCE_SYMMETRIC_RANGE,
                   fileVars, rendererVars>>

----------------------------------------------------------------------------
(* GenerateBrickOfBytes: the ranges and the quantization of each cell.     *)

\* Mutant of Trunc: rounding to the nearest integer.
Trunc_RoundNearest(a) == (2 * a[1] + a[2]) \div (2 * a[2])

\* int i = f: the conversion of a float to int drops the fraction.
Trunc(a) == IF a[1] >= 0 THEN a[1] \div a[2] ELSE -((-a[1]) \div a[2])

\* unsigned char c = i: the value modulo 256.
ToUnsignedChar(i) == i % 256

\* Mutant of fAlmost256: the scale without the epsilon.
fAlmost256_NoEpsilon == RInt(256)

\* fAlmost256 = 256.0f * ( 1.0f - FLT_EPSILON )
fAlmost256 == RMul(RInt(256), RSub(RInt(1), FLT_EPSILON))

\* The largest k in lo..hi with k*k <= n, given lo*lo <= n < (hi+1)*(hi+1).
RECURSIVE ISqrtIn(_, _, _)
ISqrtIn(n, lo, hi) ==
    IF lo = hi THEN lo
    ELSE LET mid == (lo + hi + 1) \div 2
         IN  IF mid * mid <= n THEN ISqrtIn(n, mid, hi)
             ELSE ISqrtIn(n, lo, mid - 1)

ISqrt(n) == ISqrtIn(n, 0, 46340)

\* sqrtf( q ), q >= 0: the root rounded to the nearest representable
\* number, which in the model is the nearest multiple of 1/16.  Roots that
\* are multiples of 1/16 are exact, and rounding keeps the order.
Sqrt(q) == R((ISqrt((1024 * q[1]) \div q[2]) + 1) \div 2, 16)

Mag2(v) == RAdd(RAdd(RMul(v[1], v[1]), RMul(v[2], v[2])), RMul(v[3], v[3]))

\* Vec3::Magnitude(): the Euclidean norm.
Magnitude(v) == Sqrt(Mag2(v))

\* What the conversion of a NaN to int gives is not defined by the
\* language; the hardware gives the most negative int (x86) or 0 (ARM).
NaNToInt == {-2147483647 - 1, 0}

\* Mutant of SymmetricRange: the extreme taken without negating the
\* minimum.
SymmetricRange_NoNegation(fMin, fMax) ==
    LET fExtreme == MAX2(fMin, fMax)
    IN  [min |-> RNeg(fExtreme), max |-> fExtreme]

\* fExtreme = MAX2( -fMin , fMax ) ; fMax = fExtreme ; fMin = - fMax
SymmetricRange(fMin, fMax) ==
    LET fExtreme == MAX2(RNeg(fMin), fMax)
    IN  [min |-> RNeg(fExtreme), max |-> fExtreme]

\* The range a channel is encoded over, from its statistics.
UsedRange(fMin, fMax, symmetric) ==
    IF symmetric THEN SymmetricRange(fMin, fMax)
    ELSE [min |-> fMin, max |-> fMax]

\* The route of one component of one cell to its byte: shifted, divided by
\* the range, scaled, converted to int, stored as unsigned char.
QuantizeComponent(rVal, fMin, fRange) ==
    LET fShifted == RSub(rVal, fMin)
        f0to1 == RDiv(fShifted, fRange)
        f0to255 == RMul(f0to1, fAlmost256)
        iVal == Trunc(f0to255)
    IN  [value |-> rVal,
         fShifted |-> fShifted,
         f0to1 |-> f0to1,
         f0to255 |-> f0to255,
         iVal |-> iVal,
         cVal |-> ToUnsignedChar(iVal)]

\* vMag0to255 = fAlmost256 * fMag / fMagMax, converted to int and stored as
\* unsigned char.  fMagMax is not floored: over a grid of zero vectors the
\* quotient is 0/0, a NaN, and its conversion to int is undefined.
QuantizeMagnitude(fMag, fMagMax, nanAsInt) ==
    IF fMagMax = RZero
    THEN [value |-> fMag,
          isNaN |-> TRUE,
          f0to255 |-> RZero,
          iVal |-> nanAsInt,
          cVal |-> ToUnsignedChar(nanAsInt)]
    ELSE LET vMag0to255 == RDiv(RMul(fAlmost256, fMag), fMagMax)
             iVal == Trunc(vMag0to255)
         IN  [value |-> fMag,
              isNaN |-> FALSE,
              f0to255 |-> vMag0to255,
              iVal |-> iVal,
              cVal |-> ToUnsignedChar(iVal)]

\* Mutant of BrickOfFloats: the range of the statistics used as it is.
BrickOfFloats_StatisticsRange(contents, symmetric) ==
    LET stats == StatisticsFloat(contents)
        fRange == MAX2(RSub(stats.max, stats.min), FLT_MIN)
    IN  [stats |-> [min |-> <<stats.min>>, max |-> <<stats.max>>],
         symmetric |-> symmetric,
         vMin |-> <<stats.min>>,
         vMax |-> <<stats.max>>,
         vRange |-> <<fRange>>,
         hasMagnitude |-> FALSE,
         fMagMax |-> RZero,
         cells |-> [offset \in DOMAIN contents |->
                      [comp |-> <<QuantizeComponent(contents[offset],
                                                    stats.min, fRange)>>]],
         footer |-> <<[min |-> stats.min, max |-> stats.max]>>]

\* UniformGrid<float>::GenerateBrickOfBytes: statistics, range, and the
\* cells in offset order; the footer takes fMin and fMax.
BrickOfFloats(contents, symmetric) ==
    LET stats == StatisticsFloat(contents)
        used == UsedRange(stats.min, stats.max, symmetric)
        fRange == MAX2(RSub(used.max, used.min), FLT_MIN)
    IN  [stats |-> [min |-> <<stats.min>>, max |-> <<stats.max>>],
         symmetric |-> symmetric,
         vMin |-> <<used.min>>,
         vMax |-> <<used.max>>,
         vRange |-> <<fRange>>,
         hasMagnitude |-> FALSE,
         fMagMax |-> RZero,
         cells |-> [offset \in DOMAIN contents |->
                      [comp |-> <<QuantizeComponent(contents[offset],
                                                    used.min, fRange)>>]],
         footer |-> <<[min |-> used.min, max |-> used.max]>>]

\* The vector exporters (UniformGrid<Vec3> and UniformGrid<Vorton>, whose
\* bodies are the same but for the symmetric range): vExtreme and fMagMax
\* from the statistics, the ranges floored at FLT_MIN, and per cell the
\* three components and the magnitude.
BrickOfVectors(vectors, stats, symmetric, nanAsInt) ==
    LET vExtreme == <<MAX2(RNeg(stats.min[1]), stats.max[1]),
                      MAX2(RNeg(stats.min[2]), stats.max[2]),
                      MAX2(RNeg(stats.min[3]), stats.max[3])>>
        fMagMax == Magnitude(vExtreme)
        used == <<UsedRange(stats.min[1], stats.max[1], symmetric),
                  UsedRange(stats.min[2], stats.max[2], symmetric),
                  UsedRange(stats.min[3], stats.max[3], symmetric)>>
        vMin == <<used[1].min, used[2].min, used[3].min>>
        vMax == <<used[1].max, used[2].max, used[3].max>>
        vRange == <<MAX2(FLT_MIN, RSub(vMax[1], vMin[1])),
                    MAX2(FLT_MIN, RSub(vMax[2], vMin[2])),
                    MAX2(FLT_MIN, RSub(vMax[3], vMin[3]))>>
    IN  [stats |-> stats,
         symmetric |-> symmetric,
         vMin |-> vMin,
         vMax |-> vMax,
         vRange |-> vRange,
         hasMagnitude |-> TRUE,
         vExtreme |-> vExtreme,
         fMagMax |-> fMagMax,
         cells |-> [offset \in DOMAIN vectors |->
                      LET rVec == vectors[offset]
                          fMag == Magnitude(rVec)
                      IN  [rVec |-> rVec,
                           fMag |-> fMag,
                           comp |-> <<QuantizeComponent(rVec[1], vMin[1], vRange[1]),
                                      QuantizeComponent(rVec[2], vMin[2], vRange[2]),
                                      QuantizeComponent(rVec[3], vMin[3], vRange[3])>>,
                           mag |-> QuantizeMagnitude(fMag, fMagMax, nanAsInt)]],
         footer |-> <<[min |-> vMin[1], max |-> vMax[1]],
                      [min |-> vMin[2], max |-> vMax[2]],
                      [min |-> vMin[3], max |-> vMax[3]],
                      [min |-> RZero, max |-> fMagMax]>>]

\* Mutant of VortonBrick: the symmetric range under the switch of the
\* other two exporters.
VortonBrick_BySwitch(contents, nanAsInt) ==
    LET vortonStats == StatisticsVorton(contents)
        vorticities == [offset \in DOMAIN contents |-> contents[offset].mVorticity]
    IN  BrickOfVectors(vorticities,
                       [min |-> vortonStats.min.mVorticity,
                        max |-> vortonStats.max.mVorticity],
                       ENFORCE_SYMMETRIC_RANGE, nanAsInt)

\* UniformGrid<Vorton>::GenerateBrickOfBytes: the statistics of the
\* vortons, of which the vorticity is taken, the symmetric range without
\* any switch, and the cells from the vorticities.
VortonBrick(contents, nanAsInt) ==
    LET vortonStats == StatisticsVorton(contents)
        vorticities == [offset \in DOMAIN contents |-> contents[offset].mVorticity]
    IN  BrickOfVectors(vorticities,
                       [min |-> vortonStats.min.mVorticity,
                        max |-> vortonStats.max.mVorticity],
                       TRUE, nanAsInt)

----------------------------------------------------------------------------
(* GenerateBrickOfBytes: the files.                                        *)
(*                                                                         *)
(* A file holds a sequence of items: [byte |-> b] for a byte written by    *)
(* fwrite, and a record with a field "line" for a line written by fprintf. *)
(* A call is a sequence of file operations in program order, which Run     *)
(* applies to the files.                                                   *)

\* The prefix of the file names (the argument strFilenameBase).
strFilenameBase == "vort"

\* The frame numbers passed (the argument uFrame).
Frames == {0, 1}

\* "%05u"
Pad5(u) ==
    IF u < 10 THEN "0000" \o ToString(u)
    ELSE IF u < 100 THEN "000" \o ToString(u)
    ELSE IF u < 1000 THEN "00" \o ToString(u)
    ELSE IF u < 10000 THEN "0" \o ToString(u)
    ELSE ToString(u)

\* "%ux%ux%u" of GetNumPoints( 0 ), GetNumPoints( 1 ), GetNumPoints( 2 )
DimsText(G) ==
    ToString(GetNumPoints(G, 1)) \o "x" \o ToString(GetNumPoints(G, 2))
        \o "x" \o ToString(GetNumPoints(G, 3))

\* "Vols/%s<channel>%05u-%ux%ux%u.dat"
DataFilename(channel, uFrame, G) ==
    "Vols/" \o strFilenameBase \o channel \o Pad5(uFrame) \o "-" \o DimsText(G)
        \o ".dat"

\* "%s.ogle"
ScriptFilename == strFilenameBase \o ".ogle"

\* The data files of a vector export, in the order of strDataFilenames.
VectorDataFilenames(uFrame, G) ==
    <<DataFilename("X", uFrame, G), DataFilename("Y", uFrame, G),
      DataFilename("Z", uFrame, G), DataFilename("M", uFrame, G)>>

RECURSIVE Pow10(_)
Pow10(k) == IF k = 0 THEN 1 ELSE 10 * Pow10(k - 1)

\* The decimal exponent of a > 0: the e with 10^e <= a < 10^(e+1).
RECURSIVE Log10Floor(_)
Log10Floor(a) ==
    IF ~RLt(a, RInt(10)) THEN 1 + Log10Floor(RDiv(a, RInt(10)))
    ELSE IF RLt(a, RInt(1)) THEN Log10Floor(RMul(a, RInt(10))) - 1
    ELSE 0

\* Mutant of RoundSig: no rounding at all.
RoundSig_Exact(x, sig) == x

\* The integer nearest to the positive rational s, halves upwards.
RoundQ(s) == (2 * s[1] + s[2]) \div (2 * s[2])

\* a > 0 rounded to a multiple of 10^(-k).
RoundAt(a, k) ==
    IF k >= 0 THEN R(RoundQ(RMul(a, RInt(Pow10(k)))), Pow10(k))
    ELSE RInt(RoundQ(RDiv(a, RInt(Pow10(-k)))) * Pow10(-k))

\* a > 0 rounded to sig significant decimal digits.
RoundMag(a, sig) == RoundAt(a, sig - 1 - Log10Floor(a))

\* The number a "%.<sig>g" conversion of x denotes: x rounded to sig
\* significant decimal digits.
RoundSig(x, sig) ==
    IF x[1] = 0 THEN x
    ELSE IF x[1] < 0 THEN RNeg(RoundMag(<<-x[1], x[2]>>, sig))
    ELSE RoundMag(x, sig)

\* "%g": six significant digits.
FormatG(x) == RoundSig(x, 6)

\* "%9.7g": seven significant digits.
FormatG7(x) == RoundSig(x, 7)

\* The outcomes of the undefined behaviour in the vector exporters that
\* builds differ in:
\*   nanAsInt: the int a NaN converts to;
\*   varargs: whether "%g" finds the int 0 passed for it where it looks
\*     for a double ("as passed": it reads 0 and then fMagMax; "misread":
\*     it reads fMagMax first and then a register nobody set);
\*   nullStream: what fprintf does with a null FILE pointer.
Builds ==
    {[nanAsInt |-> -2147483647 - 1, varargs |-> "misread", nullStream |-> "crash"],
     [nanAsInt |-> -2147483647 - 1, varargs |-> "as passed", nullStream |-> "ignored"],
     [nanAsInt |-> 0, varargs |-> "as passed", nullStream |-> "crash"]}

\* What "%g" prints for a register nobody set.
GarbageDouble == RInt(-1)

Fopen(name, mode, ok) == [op |-> "fopen", file |-> name, mode |-> mode, ok |-> ok]
Fprintf(name, line) == [op |-> "fprintf", file |-> name, item |-> line]
Fwrite(name, cVal) == [op |-> "fwrite", file |-> name, item |-> [byte |-> cVal]]
Fclose(name) == [op |-> "fclose", file |-> name]

\* "# %s ranges: ..." for the script.
CommentLine(vMin, vMax) ==
    [line |-> "comment",
     base |-> strFilenameBase,
     min |-> [c \in DOMAIN vMin |-> FormatG7(vMin[c])],
     max |-> [c \in DOMAIN vMax |-> FormatG7(vMax[c])]]

\* "%ux%ux%u %s ...\n" for the script.
DataLine(G, names) == [line |-> "data", dims |-> DimsText(G), files |-> names]

\* "MIN %g MAX %g\n"
FooterLine(fMin, fMax) ==
    [line |-> "footer", min |-> FormatG(fMin), max |-> FormatG(fMax)]

\* fprintf( pDataFiles[3] , "MIN %g MAX %g\n" , 0 , fMagMax ): the first
\* argument is an int where "%g" takes a double.
MagnitudeFooterLine(fMagMax, build) ==
    IF build.varargs = "as passed" THEN FooterLine(RZero, fMagMax)
    ELSE FooterLine(fMagMax, GarbageDouble)

\* Mutant of RunOp: opening an existing file always empties it, also with
\* mode "a".
RunOp_AppendTruncates(fs, o) ==
    IF o.op = "fopen" THEN
        IF ~o.ok THEN fs
        ELSE IF o.file \in DOMAIN fs
             THEN [fs EXCEPT ![o.file] = [content |-> <<>>, handles |-> @.handles + 1]]
        ELSE (o.file :> [content |-> <<>>, handles |-> 1]) @@ fs
    ELSE IF o.file \notin DOMAIN fs \/ fs[o.file].handles = 0 THEN fs
    ELSE IF o.op = "fclose" THEN [fs EXCEPT ![o.file].handles = @ - 1]
    ELSE [fs EXCEPT ![o.file].content = Append(@, o.item)]

\* The effect of one file operation on the files.
RunOp(fs, o) ==
    IF o.op = "fopen" THEN
        IF ~o.ok THEN fs
        ELSE IF o.file \in DOMAIN fs /\ o.mode = "a"
             THEN [fs EXCEPT ![o.file].handles = @ + 1]
        ELSE IF o.file \in DOMAIN fs
             THEN [fs EXCEPT ![o.file] = [content |-> <<>>, handles |-> @.handles + 1]]
        ELSE (o.file :> [content |-> <<>>, handles |-> 1]) @@ fs
    ELSE IF o.file \notin DOMAIN fs \/ fs[o.file].handles = 0 THEN fs
    ELSE IF o.op = "fclose" THEN [fs EXCEPT ![o.file].handles = @ - 1]
    ELSE [fs EXCEPT ![o.file].content = Append(@, o.item)]

\* The operations applied in their order, the first half before the second.
RECURSIVE Run(_, _)
Run(fs, ops) ==
    IF ops = <<>> THEN fs
    ELSE IF Len(ops) = 1 THEN RunOp(fs, ops[1])
    ELSE LET half == Len(ops) \div 2
             first == Run(fs, SubSeq(ops, 1, half))
         IN  Strict(first, Run(first, SubSeq(ops, half + 1, Len(ops))))

\* Mutant of FloatBody: the cells written from the last to the first.
FloatBody_Backwards(name, brick) ==
    LET numGridPoints == Size(brick.cells)
    IN  [i \in 1..numGridPoints |->
            Fwrite(name, brick.cells[numGridPoints - i].comp[1].cVal)]

\* for( offset = 0 ; offset < numGridPoints ; ++ offset ) fwrite( & cVal ... )
FloatBody(name, brick) ==
    [i \in 1..Size(brick.cells) |-> Fwrite(name, brick.cells[i - 1].comp[1].cVal)]

\* The loop of the vector exporters: per cell, one byte to each of the four
\* data files.
VectorBody(names, brick) ==
    [i \in 1..(4 * Size(brick.cells)) |->
        LET offset == (i - 1) \div 4
            c == ((i - 1) % 4) + 1
        IN  Fwrite(names[c], IF c <= 3 THEN brick.cells[offset].comp[c].cVal
                             ELSE brick.cells[offset].mag.cVal)]

\* The file operations of UniformGrid<float>::GenerateBrickOfBytes, and
\* how the call ends.
FloatCall(G, brick, uFrame, unwritable) ==
    LET data == DataFilename("", uFrame, G)
        scriptOps == <<Fopen(ScriptFilename, "a", TRUE),
                       Fprintf(ScriptFilename, CommentLine(brick.vMin, brick.vMax)),
                       Fprintf(ScriptFilename, DataLine(G, <<data>>)),
                       Fclose(ScriptFilename)>>
    IN  IF ScriptFilename \in unwritable
        THEN [result |-> "aborted", ops |-> <<Fopen(ScriptFilename, "a", FALSE)>>]
        ELSE IF data \in unwritable
        THEN [result |-> "aborted", ops |-> scriptOps \o <<Fopen(data, "wb", FALSE)>>]
        ELSE [result |-> "ok",
              ops |-> scriptOps \o <<Fopen(data, "wb", TRUE)>> \o FloatBody(data, brick)
                          \o <<Fprintf(data, FooterLine(brick.vMin[1], brick.vMax[1])),
                               Fclose(data)>>]

\* The file operations of the vector exporters.  The script's FILE pointer
\* is used unchecked: where a null stream does not crash the call, the call
\* goes on without a script ("no script").  The four data files are all
\* opened before the first of them is checked.
VectorCall(G, brick, uFrame, unwritable, build) ==
    LET names == VectorDataFilenames(uFrame, G)
        scriptOk == ScriptFilename \notin unwritable
        scriptOps == <<Fopen(ScriptFilename, "a", scriptOk),
                       Fprintf(ScriptFilename, CommentLine(brick.vMin, brick.vMax)),
                       Fprintf(ScriptFilename, DataLine(G, SubSeq(names, 1, 3))),
                       Fclose(ScriptFilename)>>
        opens == [c \in 1..4 |-> Fopen(names[c], "wb", names[c] \notin unwritable)]
        footers == <<Fprintf(names[1], FooterLine(brick.vMin[1], brick.vMax[1])),
                     Fprintf(names[2], FooterLine(brick.vMin[2], brick.vMax[2])),
                     Fprintf(names[3], FooterLine(brick.vMin[3], brick.vMax[3])),
                     Fprintf(names[4], MagnitudeFooterLine(brick.fMagMax, build))>>
        closes == [c \in 1..4 |-> Fclose(names[c])]
    IN  IF ~scriptOk /\ build.nullStream = "crash"
        THEN [result |-> "crash", ops |-> SubSeq(scriptOps, 1, 1)]
        ELSE IF \E c \in 1..4 : names[c] \in unwritable
        THEN [result |-> "aborted", ops |-> scriptOps \o opens]
        ELSE [result |-> IF scriptOk THEN "ok" ELSE "no script",
              ops |-> scriptOps \o opens \o VectorBody(names, brick) \o footers \o closes]

\* What a call leaves in last, in the files and in the log.  The callers
\* bind brick and outcome with \E over a one-element set, so that each is
\* a value computed once.
Export(g, uFrame, names, unwritable, brick, outcome) ==
    /\ last' = IF outcome.result = "ok"
               THEN [kind |-> "brick", g |-> g, uFrame |-> uFrame, names |-> names,
                     unwritable |-> unwritable, ops |-> outcome.ops, brick |-> brick]
               ELSE [kind |-> outcome.result, g |-> g, uFrame |-> uFrame,
                     names |-> names, unwritable |-> unwritable, ops |-> outcome.ops]
    /\ files' = Run(files, outcome.ops)
    /\ exportLog' = Append(exportLog, [uFrame |-> uFrame, result |-> outcome.result])
    /\ UNCHANGED <<geom, mContents, writes, loop, itemT, ENFORCE_SYMMETRIC_RANGE,
                   rendererVars>>

\* grid.GenerateBrickOfBytes( strFilenameBase , uFrame ) on a grid of floats.
GenerateBrickOfBytesFloat(g, uFrame, unwritable) ==
    /\ loop.kind = "none"
    /\ last.kind # "crash"
    /\ itemT = "float"
    /\ geom[g].state = "ready"
    /\ \E brick \in {BrickOfFloats(mContents[g], ENFORCE_SYMMETRIC_RANGE)} :
       \E outcome \in {FloatCall(geom[g], brick, uFrame, unwritable)} :
          Export(g, uFrame, <<DataFilename("", uFrame, geom[g])>>, unwritable, brick,
                 outcome)

\* grid.GenerateBrickOfBytes( strFilenameBase , uFrame ) on a grid of Vec3.
GenerateBrickOfBytesVec3(g, uFrame, unwritable, build) ==
    /\ loop.kind = "none"
    /\ last.kind # "crash"
    /\ itemT = "Vec3"
    /\ geom[g].state = "ready"
    /\ \E brick \in {BrickOfVectors(mContents[g],
                                     StatisticsVec3(geom[g], mContents[g]),
                                     ENFORCE_SYMMETRIC_RANGE, build.nanAsInt)} :
       \E outcome \in {VectorCall(geom[g], brick, uFrame, unwritable, build)} :
          Export(g, uFrame, VectorDataFilenames(uFrame, geom[g]), unwritable, brick,
                 outcome)

\* grid.GenerateBrickOfBytes( strFilenameBase , uFrame ) on a grid of
\* Vortons: the vorticity is exported, always over the symmetric range.
GenerateBrickOfBytesVorton(g, uFrame, unwritable, build) ==
    /\ loop.kind = "none"
    /\ last.kind # "crash"
    /\ itemT = "Vorton"
    /\ geom[g].state = "ready"
    /\ \E brick \in {VortonBrick(mContents[g], build.nanAsInt)} :
       \E outcome \in {VectorCall(geom[g], brick, uFrame, unwritable, build)} :
          Export(g, uFrame, VectorDataFilenames(uFrame, geom[g]), unwritable, brick,
                 outcome)

----------------------------------------------------------------------------
(* Sequences of export calls, some of which find a file unwritable.        *)

\* Export calls made in one run.
MaxExports == 2

\* The element at an offset of a grid filled with a repeating pattern.
PatternOf(t, offset) ==
    LET floats == <<RZero, RInt(-3), R(1, 2), RInt(4)>>
        vectors == <<Vec3Of(RZero),
                     <<RInt(3), RInt(-4), RZero>>,
                     <<RInt(-1), R(1, 2), RInt(2)>>,
                     <<RInt(1), RInt(2), RInt(2)>>>>
        positions == <<Vec3Of(RZero), <<R(1, 2), RInt(-1), RInt(2)>>>>
    IN  IF t = "float" THEN floats[(offset % 4) + 1]
        ELSE IF t = "Vec3" THEN vectors[(offset % 4) + 1]
        ELSE [mPosition |-> positions[(offset % 2) + 1],
              mVorticity |-> vectors[(offset % 4) + 1]]

\* The scalar grid of 4 x 4 x 4 points over the box (0,0,0)..(3,3,3).
RampBox == [vMin |-> Vec3Of(RZero), vMax |-> Vec3Of(RInt(3))]
RampCells == <<3, 3, 3>>

\* The grids exported: of each type one of 2 x 2 x 2 points holding the
\* pattern, and the scalar grid in which every element holds its own
\* offset.
Scenarios ==
    {[itemT |-> t, symmetric |-> b, grid |-> "pattern"] :
        t \in {"float", "Vec3"}, b \in BOOLEAN}
    \cup {[itemT |-> "Vorton", symmetric |-> FALSE, grid |-> "pattern"],
          [itemT |-> "float", symmetric |-> TRUE, grid |-> "ramp"]}

ScenarioGeom(sc) ==
    IF sc.grid = "ramp"
    THEN [DefineShape(RampBox, RampCells) EXCEPT !.state = "ready"]
    ELSE [DefineShape(vRangeBox, <<1, 1, 1>>) EXCEPT !.state = "ready"]

ScenarioContents(sc) ==
    [offset \in 0..(GetGridCapacity(ScenarioGeom(sc)) - 1) |->
        IF sc.grid = "ramp" THEN RInt(offset) ELSE PatternOf(sc.itemT, offset)]

InitScenario ==
    /\ \E sc \in Scenarios :
          /\ itemT = sc.itemT
          /\ ENFORCE_SYMMETRIC_RANGE = sc.symmetric
          /\ geom = [[g \in GridIds |-> EmptyGeom] EXCEPT !["ugm"] = ScenarioGeom(sc)]
          /\ mContents = [[g \in GridIds |-> <<>>] EXCEPT
                             !["ugm"] = ScenarioContents(sc)]
    /\ writes = [g \in GridIds |-> 0]
    /\ last = NoQuery
    /\ loop = NoLoop
    /\ InitFilesAndRenderer

\* The sets of files a call finds unwritable: none, the script, or one of
\* the data files (of four, the second).
UnwritableSets(names) ==
    {{}, {ScriptFilename}, {names[(Len(names) + 1) \div 2]}}

----------------------------------------------------------------------------
(* ParticleRenderer: Render and FillVertexBufferSlice.                     *)
(*                                                                         *)
(* renderer holds the members Render assigns; a buffer is a number that    *)
(* tells allocations apart, 0 for none.  call is the Render call in        *)
(* progress: the blocked_ranges parallel_for has not handed out yet, the   *)
(* slices being filled, each at its own iPcl, and how often each vertex of *)
(* the buffer was written in this call.                                    *)

\* Particles per call, and calls of Render.
MaxParticles == 4
MaxRenders == 3

\* Values of gNumberOfProcessors.  With one processor the range is never
\* split, which is also the build without USE_TBB.
Processors == {1, 2, 3}

\* static const unsigned nvpp = 4: vertices per particle.
nvpp == 4

\* Mutant of VerticesOf: the quadrilaterals packed three vertices apart.
VerticesOf_Packed(iPcl) == {iPcl * 3 + k : k \in 0..3}

\* pVertices[ iPcl*nvpp ] .. pVertices[ iPcl*nvpp+3 ]
VerticesOf(iPcl) == {iPcl * nvpp + k : k \in 0..3}

\* What names a buffer allocated by the call in progress.
NewBuffer == renders + 1

\* Mutant of VertexBufferFor: the buffer replaced whenever its capacity is
\* not the number of vertices asked for.
VertexBufferFor_ExactFit(r, numVertices) ==
    IF gVboSupported
    THEN IF r.mVertexBufferCapacity # numVertices
         THEN [r EXCEPT !.mVboNames0 = NewBuffer, !.mVertexBuffer = NewBuffer,
                        !.mVertexBufferCapacity = numVertices]
         ELSE r
    ELSE IF r.mVertexBufferCapacity # numVertices
         THEN [r EXCEPT !.mVertexBuffer = NewBuffer,
                        !.mVertexBufferCapacity = numVertices]
         ELSE r

\* Render, the vertex buffer: a vertex buffer object that is freed when too
\* small, created when there is none, and mapped; or an array that is
\* deleted when too small and allocated when there is none.
VertexBufferFor(r, numVertices) ==
    IF gVboSupported
    THEN LET freed == IF r.mVboNames0 # 0 /\ r.mVertexBufferCapacity < numVertices
                      THEN [r EXCEPT !.mVboNames0 = 0]
                      ELSE r
             made == IF freed.mVboNames0 = 0
                     THEN [freed EXCEPT !.mVboNames0 = NewBuffer,
                                        !.mVertexBufferCapacity = numVertices]
                     ELSE freed
         IN  [made EXCEPT !.mVertexBuffer = made.mVboNames0]
    ELSE LET freed == IF r.mVertexBuffer # 0 /\ r.mVertexBufferCapacity < numVertices
                      THEN [r EXCEPT !.mVertexBuffer = 0, !.mVertexBufferCapacity = 0]
                      ELSE r
         IN  IF freed.mVertexBuffer = 0
             THEN [freed EXCEPT !.mVertexBuffer = NewBuffer,
                                !.mVertexBufferCapacity = numVertices]
             ELSE freed

\* Render, the index map: if( numParticles > mIndicesCapacity ) free, malloc.
IndicesFor(r, numParticles) ==
    IF numParticles > r.mIndicesCapacity
    THEN [r EXCEPT !.mIndices = NewBuffer, !.mIndicesCapacity = numParticles]
    ELSE r

\* grainSize = MAX2( 1 , numParticles / gNumberOfProcessors )
GrainSize(numParticles) ==
    IF numParticles \div gNumberOfProcessors > 1
    THEN numParticles \div gNumberOfProcessors
    ELSE 1

PendingRanges == IF call.pc = "fill" THEN call.ranges ELSE {}
RunningSlices == IF call.pc = "fill" THEN call.slices ELSE {}

\* Render( timeNow , timeChange , numParticles ), up to the call of
\* parallel_for: nothing at all for no particles; else the buffers, and the
\* one range 0..numParticles to fill.
Render(numParticles) ==
    /\ call.pc # "fill"
    /\ renders < MaxRenders
    /\ IF numParticles = 0
       THEN /\ call' = [pc |-> "returned", numParticles |-> 0, written |-> <<>>]
            /\ renders' = renders + 1
            /\ UNCHANGED renderer
       ELSE /\ renderer' = IndicesFor(VertexBufferFor(renderer, numParticles * nvpp),
                                      numParticles)
            /\ call' = [pc |-> "fill",
                        numParticles |-> numParticles,
                        grainSize |-> GrainSize(numParticles),
                        ranges |-> {[begin |-> 0, end |-> numParticles]},
                        slices |-> {},
                        written |-> [v \in 0..(numParticles * nvpp - 1) |-> 0]]
            /\ UNCHANGED renders
    /\ UNCHANGED <<gridVars, fileVars, gVboSupported, gNumberOfProcessors>>

\* parallel_for splits a blocked_range longer than the grain size in two
\* halves.
SplitRange(r) ==
    /\ call.pc = "fill"
    /\ r \in call.ranges
    /\ r.end - r.begin > call.grainSize
    /\ LET middle == r.begin + (r.end - r.begin) \div 2
       IN  call' = [call EXCEPT !.ranges =
                       (@ \ {r}) \cup {[begin |-> r.begin, end |-> middle],
                                       [begin |-> middle, end |-> r.end]}]
    /\ UNCHANGED <<gridVars, fileVars, renderer, gVboSupported,
                   gNumberOfProcessors, renders>>

\* ParticleRenderer_FillVertexBuffer_TBB::operator(): a thread takes a
\* range and calls FillVertexBufferSlice( r.begin() , r.end() ).
StartSlice(r) ==
    /\ call.pc = "fill"
    /\ r \in call.ranges
    /\ call' = [call EXCEPT !.ranges = @ \ {r},
                            !.slices = @ \cup {[iPclStart |-> r.begin,
                                                iPclEnd |-> r.end,
                                                iPcl |-> r.begin]}]
    /\ UNCHANGED <<gridVars, fileVars, renderer, gVboSupported,
                   gNumberOfProcessors, renders>>

\* FillVertexBufferSlice, one pass of for( iPcl = iPclStart ; iPcl <
\* iPclEnd ; ++ iPcl ) in one of the threads: the four vertices of the
\* particle are written; after the last pass the slice is done.
FillVertexBufferSlice(s) ==
    /\ call.pc = "fill"
    /\ s \in call.slices
    /\ s.iPcl < s.iPclEnd
    /\ call' = [call EXCEPT
                   !.written = [v \in DOMAIN @ |->
                                   IF v \in VerticesOf(s.iPcl) THEN @[v] + 1 ELSE @[v]],
                   !.slices = (@ \ {s}) \cup
                                 (IF s.iPcl + 1 < s.iPclEnd
                                  THEN {[s EXCEPT !.iPcl = @ + 1]}
                                  ELSE {})]
    /\ UNCHANGED <<gridVars, fileVars, renderer, gVboSupported,
                   gNumberOfProcessors, renders>>

\* Render after parallel_for has returned: glDrawArrays( GL_QUADS , 0 ,
\* numVertices ), and the return.
DrawArrays ==
    /\ call.pc = "fill"
    /\ call.ranges = {}
    /\ call.slices = {}
    /\ call' = [pc |-> "returned", numParticles |-> call.numParticles,
                written |-> call.written]
    /\ renders' = renders + 1
    /\ UNCHANGED <<gridVars, fileVars, renderer, gVboSupported, gNumberOfProcessors>>

\* A renderer nobody has called, on a machine with or without vertex
\* buffer objects, with one processor or more.
InitRender ==
    /\ geom = [g \in GridIds |-> EmptyGeom]
    /\ mContents = [g \in GridIds |-> <<>>]
    /\ writes = [g \in GridIds |-> 0]
    /\ last = NoQuery
    /\ loop = NoLoop
    /\ itemT = "unsigned"
    /\ ENFORCE_SYMMETRIC_RANGE = FALSE
    /\ files = NoFiles
    /\ exportLog = <<>>
    /\ renderer = NewRenderer
    /\ gVboSupported \in BOOLEAN
    /\ gNumberOfProcessors \in Processors
    /\ call = NoCall
    /\ renders = 0

----------------------------------------------------------------------------
(* Specifications. *)

\* One grid: construction, Init, insertion by position, and the two loops of
\* UnitTest over the cells.
Next ==
    \/ \E box \in Boxes, cells \in Shapes : Construct("ugm", box, cells)
    \/ InitGrid("ugm")
    \/ /\ geom["ugm"].state = "ready"
       /\ writes["ugm"] < MaxWrites
       /\ last.kind \in {"none", "write"}
       /\ \E pos \in RandomPositions(geom["ugm"]) : WriteAtPosition("ugm", pos)
    \/ CellsStart("ugm")
    \/ CellStep
    \/ CellsFinish
    \/ CenterStart("ugm")
    \/ CenterStep
    \/ CenterFinish

Spec == Init /\ [][Next]_vars

\* Two grids, the second one default-constructed: any sequence of
\* construction, resize, Init, copy of geometry and Decimate.
NextGeom ==
    \/ \E box \in Boxes, cells \in Shapes : Construct("ugm", box, cells)
    \/ \E g \in GridIds, cells \in Shapes : Resize(g, cells)
    \/ \E g \in GridIds : InitGrid(g)
    \/ \E dst \in GridIds, src \in GridIds : CopyShape(dst, src)
    \/ \E dst \in GridIds, src \in GridIds, f \in 1..MaxDecimation :
            Decimate(dst, src, f)

SpecGeom == Init /\ [][NextGeom]_vars

\* One grid, built over any box, the degenerate ones included, resized and
\* given its storage.
NextInit ==
    \/ \E box \in Boxes \cup DegenerateBoxes, cells \in Shapes :
            Construct("ugm", box, cells)
    \/ \E cells \in Shapes : Resize("ugm", cells)
    \/ InitGrid("ugm")

SpecInit == Init /\ [][NextInit]_vars

\* A grid of floats, of Vec3 or of Vortons: elements are written, then the
\* grid is reduced and exported.
NextExport ==
    \/ /\ last.kind = "none"
       /\ writes["ugm"] < MaxWrites
       /\ \E offset \in SampleOffsets, v \in Samples(itemT) :
              SetItem("ugm", offset, v)
    \/ ComputeStatisticsVec3("ugm")
    \/ ComputeStatisticsVorton("ugm")
    \/ /\ exportLog = <<>>
       /\ GenerateBrickOfBytesFloat("ugm", 0, {})
    \/ /\ exportLog = <<>>
       /\ \E build \in Builds : GenerateBrickOfBytesVec3("ugm", 0, {}, build)
    \/ /\ exportLog = <<>>
       /\ \E build \in Builds : GenerateBrickOfBytesVorton("ugm", 0, {}, build)

SpecExport == InitItems /\ [][NextExport]_vars

\* A run of export calls on one grid.
NextFiles ==
    /\ Len(exportLog) < MaxExports
    /\ \E uFrame \in Frames :
          \/ \E unwritable \in UnwritableSets(<<DataFilename("", uFrame, geom["ugm"])>>) :
                 GenerateBrickOfBytesFloat("ugm", uFrame, unwritable)
          \/ \E unwritable \in UnwritableSets(VectorDataFilenames(uFrame, geom["ugm"])),
                   build \in Builds :
                 GenerateBrickOfBytesVec3("ugm", uFrame, unwritable, build)
          \/ \E unwritable \in UnwritableSets(VectorDataFilenames(uFrame, geom["ugm"])),
                   build \in Builds :
                 GenerateBrickOfBytesVorton("ugm", uFrame, unwritable, build)

SpecFiles == InitScenario /\ [][NextFiles]_vars

\* Calls of Render, the slices of each filled by threads in any
\* interleaving.
NextRender ==
    \/ \E numParticles \in 0..MaxParticles : Render(numParticles)
    \/ \E r \in PendingRanges : SplitRange(r)
    \/ \E r \in PendingRanges : StartSlice(r)
    \/ \E s \in RunningSlices : FillVertexBufferSlice(s)
    \/ DrawArrays

SpecRender == InitRender /\ [][NextRender]_vars

----------------------------------------------------------------------------
(* Properties. *)

ValidIndices(G) == {idx \in [Axes -> 0..MaxCells + 1] :
                        \A i \in Axes : idx[i] < GetNumPoints(G, i)}

\* C1: for every valid index triple idx of a grid,
\* IndicesFromOffset(OffsetFromIndices(idx)) = idx, and for every offset in
\* 0..Capacity-1, OffsetFromIndices(IndicesFromOffset(offset)) = offset; in
\* the centre loop the indices IndicesFromOffset gives for the running
\* counter are the loop's own indices.
C1_OffsetBijection ==
    /\ \A g \in GridIds :
        LET G == geom[g]
        IN  (G.state # "empty" /\ writes[g] = 0) =>
              /\ \A idx \in ValidIndices(G) :
                    /\ OffsetFromIndices(G, idx) \in 0..(GetGridCapacity(G) - 1)
                    /\ IndicesFromOffset(G, OffsetFromIndices(G, idx)) = idx
              /\ \A offset \in 0..(GetGridCapacity(G) - 1) :
                    /\ IndicesFromOffset(G, offset) \in ValidIndices(G)
                    /\ OffsetFromIndices(G, IndicesFromOffset(G, offset)) = offset
    /\ last.kind = "center" => last.indices = last.idx

C1_Witness ==
    /\ last.kind = "center"
    /\ \A i \in Axes : last.idx[i] > 0
    /\ geom[last.g].numPoints[1] # geom[last.g].numPoints[2]

\* C2: OffsetFromIndices is row-major with X fastest: it agrees with the
\* offset the loops accumulate (idx[0] + numPoints[0]*idx[1] + numXY*idx[2]),
\* and looping z outermost, x innermost visits the offsets 0, 1, ...,
\* Capacity-1 in increasing order, each once.
C2_RowMajor ==
    /\ last.kind = "cell" =>
          /\ last.offsetXYZ = last.offsetFromIndices
          /\ last.offsetFromIndices =
                last.idx[1] + geom[last.g].numPoints[1]
                    * (last.idx[2] + geom[last.g].numPoints[2] * last.idx[3])
    /\ last.kind = "center" =>
          OffsetFromIndices(geom[last.g], last.idx) = last.counter
    /\ last.kind = "centerEnd" => last.counter = last.capacity

C2_Witness ==
    /\ last.kind = "cell"
    /\ \A i \in Axes : last.idx[i] > 0
    /\ geom[last.g].numPoints = <<2, 3, 3>>

\* Points strictly inside cell idx: its minimum corner plus a fraction
\* strictly between 0 and 1 of the spacing on each axis.
InteriorFractions == {R(1, 4), R(1, 2), R(3, 4)}

InteriorPoints(G, idx) ==
    {[i \in Axes |->
        RAdd(RAdd(G.minCorner[i], RMul(RInt(idx[i]), G.cellSpacing[i])),
             RMul(t[i], G.cellSpacing[i]))] :
     t \in [Axes -> InteriorFractions]}

\* C3: for every cell idx and every position strictly inside it (the point
\* just above its minimum corner and the point just below the next grid
\* point included), IndicesOfPosition gives idx and OffsetOfPosition gives
\* OffsetFromIndices(idx).
C3_InteriorOfCell ==
    last.kind = "cell" =>
        LET G == geom[last.g]
        IN  /\ \A i \in Axes :
                /\ RLt(RAdd(G.minCorner[i], RMul(RInt(last.idx[i]), G.cellSpacing[i])),
                       last.vPosMin[i])
                /\ RLt(last.vPosMin[i], last.vPosMax[i])
                /\ RLt(last.vPosMax[i],
                       RAdd(G.minCorner[i], RMul(RInt(last.idx[i] + 1), G.cellSpacing[i])))
            /\ last.indicesFromPosMin = last.idx
            /\ last.indicesFromPosMax = last.idx
            /\ last.offsetOfPosMin = last.offsetXYZ
            /\ last.offsetOfPosMax = last.offsetXYZ
            /\ \A p \in InteriorPoints(G, last.idx) :
                /\ IndicesOfPosition(G, p) = last.idx
                /\ OffsetOfPosition(G, p) = OffsetFromIndices(G, last.idx)

C3_Witness ==
    /\ last.kind = "cell"
    /\ last.idx = <<1, 0, 1>>
    /\ geom[last.g].numPoints = <<3, 2, 3>>
    /\ last.indicesFromPosMax = <<1, 0, 1>>

\* C4: a probe at minCorner + (idx + 1/2)*cellSpacing, for every idx below
\* numPoints on each axis, reads back as idx through IndicesOfPosition;
\* writing the running counter at the probes in x-fastest order leaves
\* contents[i] = i for every i in 0..Capacity-1 and the counter at Capacity.
C4_CenterRoundTrip ==
    /\ last.kind = "center" =>
          LET G == geom[last.g]
          IN  /\ \A i \in Axes :
                    last.vPos[i] =
                        RAdd(G.minCorner[i],
                             RMul(R(2 * last.idx[i] + 1, 2), G.cellSpacing[i]))
              /\ IndicesOfPosition(G, last.vPos) = last.idx
              /\ \A i \in 0..last.counter : mContents[last.g][i] = i
    /\ last.kind = "centerEnd" =>
          /\ last.counter = GetGridCapacity(geom[last.g])
          /\ DOMAIN mContents[last.g] = 0..(last.counter - 1)
          /\ \A i \in 0..(last.counter - 1) : mContents[last.g][i] = i

C4_Witness ==
    /\ last.kind = "centerEnd"
    /\ last.counter = 18
    /\ mContents[last.g][17] = 17

\* C5: OffsetOfPosition(p) = OffsetFromIndices(IndicesOfPosition(p)), and
\* access by position p denotes the element at offset OffsetOfPosition(p):
\* an insertion by position is read back at that offset and changes no other
\* element, and in the cell loop the element taken by position is the
\* element taken by offset.
C5_PositionAccessIsOffsetAccess ==
    [][ /\ (last'.kind = "write" /\ writes' # writes) =>
              LET g == last'.g
                  G == geom[g]
                  off == OffsetFromIndices(G, IndicesOfPosition(G, last'.pos))
              IN  /\ OffsetOfPosition(G, last'.pos) = off
                  /\ off \in DOMAIN mContents[g]
                  /\ DOMAIN mContents'[g] = DOMAIN mContents[g]
                  /\ mContents'[g][off] = last'.value
                  /\ \A o \in DOMAIN mContents[g] \ {off} :
                        mContents'[g][o] = mContents[g][o]
        /\ last'.kind = "cell" =>
              /\ last'.offsetOfPosMin =
                    OffsetFromIndices(geom[last'.g], last'.indicesFromPosMin)
              /\ last'.offsetOfPosMax =
                    OffsetFromIndices(geom[last'.g], last'.indicesFromPosMax)
              /\ last'.contentsFromPosMin = last'.offsetXYZ
              /\ last'.contentsFromPosMax = last'.offsetXYZ
      ]_vars

C5_Witness ==
    /\ last.kind = "write"
    /\ last.offset \notin {0, GetGridCapacity(geom[last.g]) - 1}
    /\ mContents[last.g][last.offset] = last.value
    /\ \E o \in DOMAIN mContents[last.g] : mContents[last.g][o] # last.value

\* C6: for every position of the closed bounding box, the far faces
\* included, each index IndicesOfPosition gives is the floor of
\* (pos - minCorner)/cellSpacing, lies in 0..numPoints-1, and
\* OffsetOfPosition(pos) is below the capacity: the access stays in storage.
C6_IndicesInRange ==
    last.kind = "write" =>
        LET G == geom[last.g]
            ind == IndicesOfPosition(G, last.pos)
        IN  /\ \A i \in Axes :
                /\ ind[i] \in 0..(GetNumPoints(G, i) - 1)
                /\ RLe(RAdd(G.minCorner[i], RMul(RInt(ind[i]), G.cellSpacing[i])),
                       last.pos[i])
                /\ RLt(last.pos[i],
                       RAdd(G.minCorner[i], RMul(RInt(ind[i] + 1), G.cellSpacing[i])))
            /\ OffsetOfPosition(G, last.pos) < GetGridCapacity(G)
            /\ last.offset \in DOMAIN mContents[last.g]

\* An insertion at the maximum corner of the box.
C6_Witness ==
    /\ last.kind = "write"
    /\ last.pos = geom[last.g].maxCorner
    /\ last.offset = GetGridCapacity(geom[last.g]) - 1
    /\ geom[last.g].numPoints = <<3, 3, 2>>

\* C7: PositionFromOffset(offset) is minCorner + IndicesFromOffset(offset) *
\* cellSpacing, the minimum corner of the cell; adding half of cellSpacing
\* gives the cell centre, and IndicesOfPosition of that centre is
\* IndicesFromOffset(offset).
C7_PositionFromOffsetIsMinCorner ==
    last.kind = "center" =>
        LET G == geom[last.g]
            half == VScale(R(1, 2), GetCellSpacing(G))
        IN  /\ last.vPosCheck = VAdd(G.minCorner, VMulInt(last.idx, G.cellSpacing))
            /\ last.vPos = VAdd(last.vPosCheck, half)
            /\ IndicesOfPosition(G, VAdd(last.vPosCheck, half)) = last.indices
            /\ IndicesOfPosition(G, last.vPosCheck) = last.indices

C7_Witness ==
    /\ last.kind = "center"
    /\ last.counter = 7
    /\ last.indices = <<1, 0, 1>>

\* C8: in every state reached by construction, resize, Init, copy of
\* geometry and Decimate, on every axis of every grid that has a shape
\* cellSpacing = (maxCorner - minCorner) / (numPoints - 1).
C8_SpacingNeverStale ==
    \A g \in GridIds :
        geom[g].state # "empty" =>
            /\ GetCellSpacing(geom[g]) =
                  DirectSpacing(geom[g].minCorner, geom[g].maxCorner, geom[g])
            /\ \A i \in Axes :
                  RMul(GetCellSpacing(geom[g])[i], RInt(geom[g].numPoints[i] - 1))
                      = RSub(geom[g].maxCorner[i], geom[g].minCorner[i])

\* A grid decimated to a coarser shape than its source.
C8_Witness ==
    /\ last.kind = "decimate"
    /\ last.iDecimation = 2
    /\ geom[last.dst].numPoints = <<2, 2, 2>>
    /\ geom[last.src].numPoints = <<3, 3, 3>>
    /\ geom[last.dst].cellSpacing # geom[last.src].cellSpacing

C10_DecimationRatio ==
    last.kind = "decimate" =>
        /\ last.iDecimation >= 1
        /\ \A i \in Axes :
            /\ GetNumCells(geom[last.dst], i) =
                  GetNumCells(geom[last.src], i) \div last.iDecimation
            /\ GetNumCells(geom[last.dst], i) * last.iDecimation =
                  GetNumCells(geom[last.src], i)

C10_Witness ==
    /\ last.kind = "decimate"
    /\ last.iDecimation = 2
    /\ \A i \in Axes : GetNumCells(geom[last.src], i) = 2
    /\ \A i \in Axes : GetNumCells(geom[last.dst], i) = 1

\* C11: a step dst.Decimate(src, f) leaves dst with the minCorner and the
\* maxCorner of src and with numPoints = numCells + 1 on every axis (the
\* cells being those of src divided by f), and leaves the geometry and the
\* contents of src as they were.
C11_DecimateFrame ==
    [][ (last'.kind = "decimate" /\ last' # last) =>
            LET dst == last'.dst
                src == last'.src
            IN  /\ geom'[dst].minCorner = geom[src].minCorner
                /\ geom'[dst].maxCorner = geom[src].maxCorner
                /\ \A i \in Axes :
                      /\ GetNumPoints(geom'[dst], i) = GetNumCells(geom'[dst], i) + 1
                      /\ GetNumPoints(geom'[dst], i) =
                            (GetNumCells(geom[src], i) \div last'.iDecimation) + 1
                /\ geom'[src] = geom[src]
                /\ mContents'[src] = mContents[src]
      ]_vars

\* A grid with storage, itself made from a copy, decimated by 2 into the
\* grid it was copied from.
C11_Witness ==
    /\ last.kind = "decimate"
    /\ last.src = "ugm3b"
    /\ last.iDecimation = 2
    /\ Size(mContents[last.src]) = 27
    /\ geom[last.dst].minCorner = OddBox.vMin
    /\ geom[last.dst].maxCorner = OddBox.vMax
    /\ geom[last.dst].numPoints = <<2, 2, 2>>

Reverse(sq) == [i \in 1..Len(sq) |-> sq[Len(sq) + 1 - i]]
Rotate(sq, k) == [i \in 1..Len(sq) |-> sq[((i - 1 + k) % Len(sq)) + 1]]
OtherOrders(sq) == {Reverse(sq)} \cup {Rotate(sq, k) : k \in 1..(Len(sq) - 1)}

\* C13: ComputeStatistics on a grid of Vec3 reads every offset in
\* 0..Capacity-1 exactly once and returns, for each of the 3 components on
\* its own, the least and the greatest value stored: each element's
\* component lies between them and each is the component of some element;
\* folding the elements in another order gives the same pair.
C13_VectorStatistics ==
    (last.kind = "stats" /\ itemT = "Vec3") =>
        LET G == geom[last.g]
            contents == mContents[last.g]
            capacity == GetGridCapacity(G)
        IN  /\ Len(last.visits) = capacity
            /\ \A offset \in 0..(capacity - 1) :
                  Cardinality({i \in 1..Len(last.visits) :
                                  last.visits[i] = offset}) = 1
            /\ \A c \in Axes :
                  /\ \A offset \in DOMAIN contents :
                        /\ RLe(last.min[c], contents[offset][c])
                        /\ RLe(contents[offset][c], last.max[c])
                  /\ \E offset \in DOMAIN contents :
                        contents[offset][c] = last.min[c]
                  /\ \E offset \in DOMAIN contents :
                        contents[offset][c] = last.max[c]
            /\ \A order \in OtherOrders(last.visits) :
                  FoldVec3(contents, order, InitialVec3Stats)
                      = [min |-> last.min, max |-> last.max]

\* Minimum and maximum taken from different elements, component by
\* component.
C13_Witness ==
    /\ last.kind = "stats"
    /\ itemT = "Vec3"
    /\ last.min = <<RInt(-1), RInt(-4), RZero>>
    /\ last.max = <<RInt(3), R(1, 2), RInt(2)>>

\* C14: ComputeStatistics on a grid of Vortons returns as min/max
\* mVorticity the per-component least and greatest of the vorticities
\* stored, and as min/max mPosition those of the positions stored; each
\* pair stays the same when the other field of every element is replaced
\* by any other value.
C14_VortonFieldsIndependent ==
    (last.kind = "stats" /\ itemT = "Vorton") =>
        LET contents == mContents[last.g]
        IN  /\ \A c \in Axes :
                  /\ \A offset \in DOMAIN contents :
                        /\ RLe(last.min.mVorticity[c], contents[offset].mVorticity[c])
                        /\ RLe(contents[offset].mVorticity[c], last.max.mVorticity[c])
                        /\ RLe(last.min.mPosition[c], contents[offset].mPosition[c])
                        /\ RLe(contents[offset].mPosition[c], last.max.mPosition[c])
                  /\ \E offset \in DOMAIN contents :
                        contents[offset].mVorticity[c] = last.min.mVorticity[c]
                  /\ \E offset \in DOMAIN contents :
                        contents[offset].mVorticity[c] = last.max.mVorticity[c]
                  /\ \E offset \in DOMAIN contents :
                        contents[offset].mPosition[c] = last.min.mPosition[c]
                  /\ \E offset \in DOMAIN contents :
                        contents[offset].mPosition[c] = last.max.mPosition[c]
            /\ \A p \in SamplePositions :
                  LET other == StatisticsVorton(
                                  [offset \in DOMAIN contents |->
                                      [mPosition |-> p,
                                       mVorticity |-> contents[offset].mVorticity]])
                  IN  /\ other.min.mVorticity = last.min.mVorticity
                      /\ other.max.mVorticity = last.max.mVorticity
            /\ \A w \in SampleVectors :
                  LET other == StatisticsVorton(
                                  [offset \in DOMAIN contents |->
                                      [mPosition |-> contents[offset].mPosition,
                                       mVorticity |-> w]])
                  IN  /\ other.min.mPosition = last.min.mPosition
                      /\ other.max.mPosition = last.max.mPosition

\* Positions and vorticities that both vary over the grid, differently.
C14_Witness ==
    /\ last.kind = "stats"
    /\ itemT = "Vorton"
    /\ last.min.mPosition = <<RZero, RInt(-1), RZero>>
    /\ last.max.mPosition = <<R(1, 2), RZero, RInt(2)>>
    /\ last.min.mVorticity = <<RZero, RInt(-4), RZero>>
    /\ last.max.mVorticity = <<RInt(3), RZero, RZero>>

\* C15: a call of ComputeStatistics, on a grid of Vec3 or of Vortons,
\* changes neither the geometry nor any stored element nor anything else
\* of the grid: only its two results are written.
C15_StatisticsFrame ==
    [][ last'.kind = "stats" =>
            /\ geom' = geom
            /\ mContents' = mContents
            /\ writes' = writes
            /\ loop' = loop
            /\ itemT' = itemT
            /\ ENFORCE_SYMMETRIC_RANGE' = ENFORCE_SYMMETRIC_RANGE
      ]_vars

\* Statistics taken of a grid whose first element holds neither bound.
C15_Witness ==
    /\ last.kind = "stats"
    /\ itemT = "Vec3"
    /\ writes[last.g] = 1
    /\ mContents[last.g][0] # last.min
    /\ mContents[last.g][0] # last.max


----------------------------------------------------------------------------
(* The exported bytes. *)

Cells == last.brick.cells
Channels == DOMAIN last.brick.vMin
Component(offset, c) == Cells[offset].comp[c]

\* The assertions of the export loop on one component of one cell.
ComponentAssertions(q) ==
    /\ RLe(RZero, q.fShifted)
    /\ RLe(RZero, q.f0to1) /\ RLe(q.f0to1, RInt(1))
    /\ RLe(RZero, q.f0to255) /\ RLt(q.f0to255, RInt(256))
    /\ q.iVal \in 0..255

\* The assertions on the sign, compiled in with the symmetric range.
SignAssertions(q) ==
    /\ RLe(RZero, q.value) \/ q.iVal <= 127
    /\ RLe(q.value, RZero) \/ q.iVal >= 127

\* C16: in each of the three GenerateBrickOfBytes variants, for every cell
\* and every component channel, the shifted value is >= 0, the normalized
\* value is in [0, 1], the scaled value is in [0, 256), and the byte
\* written is the truncated scaled value and lies in 0..255; with the
\* symmetric range compiled in, the sign assertions of the Vec3 variant
\* hold too.
C16_ComponentChannels ==
    last.kind = "brick" =>
        \A offset \in DOMAIN Cells : \A c \in Channels :
            /\ ComponentAssertions(Component(offset, c))
            /\ Component(offset, c).cVal = Component(offset, c).iVal
            /\ Component(offset, c).cVal \in 0..255
            /\ (itemT = "Vec3" /\ ENFORCE_SYMMETRIC_RANGE)
                   => SignAssertions(Component(offset, c))

\* A Vorton grid exported with a cell written as 0, one as 127 and one as
\* 255.
C16_Witness ==
    /\ last.kind = "brick"
    /\ itemT = "Vorton"
    /\ \E offset \in DOMAIN Cells : \E c \in Channels : Component(offset, c).cVal = 0
    /\ \E offset \in DOMAIN Cells : \E c \in Channels : Component(offset, c).cVal = 127
    /\ \E offset \in DOMAIN Cells : \E c \in Channels : Component(offset, c).cVal = 255

\* C17: on every channel whose range has min < max, a cell holding the
\* minimum is written as byte 0 and a cell holding the maximum as byte 255;
\* the magnitude channel, whose range is [0, fMagMax], likewise when
\* fMagMax > 0.
C17_EndsOfRange ==
    last.kind = "brick" =>
        /\ \A c \in Channels :
               RLt(last.brick.vMin[c], last.brick.vMax[c]) =>
                   \A offset \in DOMAIN Cells :
                       /\ Component(offset, c).value = last.brick.vMin[c]
                              => Component(offset, c).cVal = 0
                       /\ Component(offset, c).value = last.brick.vMax[c]
                              => Component(offset, c).cVal = 255
        /\ (last.brick.hasMagnitude /\ RLt(RZero, last.brick.fMagMax)) =>
               \A offset \in DOMAIN Cells :
                   /\ Cells[offset].fMag = RZero => Cells[offset].mag.cVal = 0
                   /\ Cells[offset].fMag = last.brick.fMagMax
                          => Cells[offset].mag.cVal = 255

\* A Vec3 grid exported over the statistics themselves, where the x channel
\* has a cell at its minimum and one at its maximum, and one cell has the
\* largest magnitude.
C17_Witness ==
    /\ last.kind = "brick"
    /\ itemT = "Vec3"
    /\ ~ENFORCE_SYMMETRIC_RANGE
    /\ RLt(last.brick.vMin[1], last.brick.vMax[1])
    /\ \E offset \in DOMAIN Cells :
           /\ Component(offset, 1).value = last.brick.vMin[1]
           /\ Component(offset, 1).cVal = 0
    /\ \E offset \in DOMAIN Cells :
           /\ Component(offset, 1).value = last.brick.vMax[1]
           /\ Component(offset, 1).cVal = 255
    /\ \E offset \in DOMAIN Cells :
           /\ Cells[offset].fMag = last.brick.fMagMax
           /\ Cells[offset].mag.cVal = 255

\* lo and hi are the least and the greatest value stored in channel c.
IsMinOfChannel(lo, c) ==
    /\ \A offset \in DOMAIN Cells : RLe(lo, Component(offset, c).value)
    /\ \E offset \in DOMAIN Cells : Component(offset, c).value = lo

IsMaxOfChannel(hi, c) ==
    /\ \A offset \in DOMAIN Cells : RLe(Component(offset, c).value, hi)
    /\ \E offset \in DOMAIN Cells : Component(offset, c).value = hi

\* C18: with the symmetric range, on every component channel the range
\* used for the bytes and given to the footer is max' = max(-min, max) and
\* min' = -max', where min and max are the least and the greatest stored
\* value; max' >= 0 and every stored value lies in [min', max'].
C18_SymmetricRange ==
    (last.kind = "brick" /\ last.brick.symmetric) =>
        \A c \in Channels :
            /\ IsMinOfChannel(last.brick.stats.min[c], c)
            /\ IsMaxOfChannel(last.brick.stats.max[c], c)
            /\ last.brick.vMax[c] = MAX2(RNeg(last.brick.stats.min[c]),
                                         last.brick.stats.max[c])
            /\ last.brick.vMin[c] = RNeg(last.brick.vMax[c])
            /\ RLe(RZero, last.brick.vMax[c])
            /\ \A offset \in DOMAIN Cells :
                   /\ RLe(last.brick.vMin[c], Component(offset, c).value)
                   /\ RLe(Component(offset, c).value, last.brick.vMax[c])
            /\ last.brick.footer[c] = [min |-> last.brick.vMin[c],
                                       max |-> last.brick.vMax[c]]

\* A grid of floats holding -3 and 1/2, exported over [-3, 3].
C18_Witness ==
    /\ last.kind = "brick"
    /\ itemT = "float"
    /\ last.brick.symmetric
    /\ last.brick.stats.min = <<RInt(-3)>>
    /\ last.brick.stats.max = <<R(1, 2)>>
    /\ last.brick.vMin = <<RInt(-3)>>
    /\ last.brick.vMax = <<RInt(3)>>

\* C19: with the symmetric range, on a channel that holds a nonzero value
\* a zero is written as byte 127, a negative value as a byte <= 127 and a
\* positive value as a byte >= 127, so a byte below 127 comes from a
\* negative value and a byte above 127 from a positive one; on a channel
\* that holds only zeros every byte is 0.
C19_SignOfByte ==
    (last.kind = "brick" /\ last.brick.symmetric) =>
        \A c \in Channels : \A offset \in DOMAIN Cells :
            LET q == Component(offset, c)
            IN  IF last.brick.vMax[c] = RZero
                THEN q.value = RZero /\ q.cVal = 0
                ELSE /\ q.value = RZero => q.cVal = 127
                     /\ RLt(q.value, RZero) => q.cVal <= 127
                     /\ RLt(RZero, q.value) => q.cVal >= 127
                     /\ q.cVal < 127 => RLt(q.value, RZero)
                     /\ q.cVal > 127 => RLt(RZero, q.value)

\* A Vec3 grid exported over the symmetric range, with a zero written as
\* 127, a negative component written below 127 and a positive one above.
C19_Witness ==
    /\ last.kind = "brick"
    /\ itemT = "Vec3"
    /\ last.brick.symmetric
    /\ \E offset \in DOMAIN Cells : \E c \in Channels :
           /\ Component(offset, c).value = RZero
           /\ Component(offset, c).cVal = 127
    /\ \E offset \in DOMAIN Cells : \E c \in Channels :
           /\ RLt(Component(offset, c).value, RZero)
           /\ Component(offset, c).cVal < 127
    /\ \E offset \in DOMAIN Cells : \E c \in Channels :
           /\ RLt(RZero, Component(offset, c).value)
           /\ Component(offset, c).cVal > 127

\* C19 as stated: with the symmetric range a zero is written as byte 128,
\* and a byte is below 128 exactly for negative values and above 128
\* exactly for positive ones.
C19_AsStated ==
    (last.kind = "brick" /\ last.brick.symmetric) =>
        \A c \in Channels : \A offset \in DOMAIN Cells :
            LET q == Component(offset, c)
            IN  /\ q.value = RZero => q.cVal = 128
                /\ q.cVal < 128 <=> RLt(q.value, RZero)
                /\ q.cVal > 128 <=> RLt(RZero, q.value)

\* C20 as stated: in the vector and vorton exports every cell's magnitude
\* lies in [0, fMagMax], and the magnitude byte, the truncation of
\* fAlmost256 * fMag / fMagMax, lies in 0..255, for every grid content.
C20_MagnitudeChannel ==
    (last.kind = "brick" /\ last.brick.hasMagnitude) =>
        \A offset \in DOMAIN Cells :
            /\ RLe(RZero, Cells[offset].fMag)
            /\ RLe(Cells[offset].fMag, last.brick.fMagMax)
            /\ Cells[offset].mag.iVal \in 0..255

\* C21 as stated: when all stored values of the grid are identical (the
\* statistics have min = max), no channel of the export divides by zero
\* (the component ranges and the magnitude's divisor are all non-zero) and
\* every byte written is 0.
C21_ZeroRange ==
    (last.kind = "brick" /\ last.brick.stats.min = last.brick.stats.max) =>
        /\ \A c \in Channels : last.brick.vRange[c] # RZero
        /\ last.brick.hasMagnitude => last.brick.fMagMax # RZero
        /\ \A name \in DOMAIN files : \A i \in DOMAIN files[name].content :
               "byte" \in DOMAIN files[name].content[i]
                   => files[name].content[i].byte = 0

----------------------------------------------------------------------------
(* The exported files. *)

IsByte(item) == "byte" \in DOMAIN item
IsLine(item) == "line" \in DOMAIN item

\* The bytes and the lines a file holds, in the order written.
BodyBytes(name) == SelectSeq(files[name].content, IsByte)
Lines(name) == SelectSeq(files[name].content, IsLine)

\* The index triples of a grid.
PointsOf(G) ==
    {<<ix, iy, iz>> : ix \in 0..(GetNumPoints(G, 1) - 1),
                      iy \in 0..(GetNumPoints(G, 2) - 1),
                      iz \in 0..(GetNumPoints(G, 3) - 1)}

\* What the grid stores at an offset for a component channel.
StoredValue(g, offset, c) ==
    IF itemT = "float" THEN mContents[g][offset]
    ELSE IF itemT = "Vec3" THEN mContents[g][offset][c]
    ELSE mContents[g][offset].mVorticity[c]

\* The vector the magnitude channel takes at an offset.
StoredVector(g, offset) ==
    IF itemT = "Vec3" THEN mContents[g][offset] ELSE mContents[g][offset].mVorticity

\* C22: after a successful export every channel file of the call (one for
\* a scalar grid; X, Y, Z and magnitude for a grid of vectors or vortons)
\* holds exactly numPoints[0]*numPoints[1]*numPoints[2] body bytes, and for
\* every index triple (ix, iy, iz) the byte at position
\* ix + nx*(iy + ny*iz) is the quantization of the element stored there:
\* of its component over the channel's range, or of its magnitude over
\* [0, fMagMax].
C22_BodyBytes ==
    last.kind = "brick" =>
        LET G == geom[last.g]
        IN  \A c \in DOMAIN last.names :
                LET body == BodyBytes(last.names[c])
                IN  /\ Len(body) = GetNumPoints(G, 1) * GetNumPoints(G, 2)
                                       * GetNumPoints(G, 3)
                    /\ \A idx \in PointsOf(G) :
                         LET k == OffsetFromIndices(G, idx)
                         IN  IF c <= 3
                             THEN body[k + 1].byte =
                                    QuantizeComponent(StoredValue(last.g, k, c),
                                                      last.brick.vMin[c],
                                                      last.brick.vRange[c]).cVal
                             ELSE /\ Cells[k].rVec = StoredVector(last.g, k)
                                  /\ Cells[k].fMag = Magnitude(Cells[k].rVec)
                                  /\ body[k + 1].byte = Cells[k].mag.cVal

\* A successful export of a grid of vectors whose X file holds different
\* bytes at different offsets.
C22_Witness ==
    /\ last.kind = "brick"
    /\ last.brick.hasMagnitude
    /\ Len(BodyBytes(last.names[1])) = 8
    /\ Len(BodyBytes(last.names[4])) = 8
    /\ BodyBytes(last.names[1])[2] # BodyBytes(last.names[1])[3]
    /\ BodyBytes(last.names[4])[1] # BodyBytes(last.names[4])[2]

\* The range a channel of the last export was quantized over: the
\* component's, after the symmetric-range policy, or [0, fMagMax].
RangeUsed(c) ==
    IF c <= 3 THEN [min |-> last.brick.vMin[c], max |-> last.brick.vMax[c]]
    ELSE [min |-> RZero, max |-> last.brick.fMagMax]

\* What the last call did to one file, in program order.
OpsOn(name) == SelectSeq(last.ops, LAMBDA o : o.file = name)

\* The last call opened the file, wrote bytes only, then one line, then
\* closed it; the file holds that line, its only one, after all its bytes,
\* and the line records the range lo..hi.
FooterRecords(name, lo, hi) ==
    LET content == files[name].content
        ops == OpsOn(name)
        n == Len(ops)
    IN  /\ n >= 3
        /\ ops[1].op = "fopen"
        /\ \A i \in 2..(n - 2) : ops[i].op = "fwrite"
        /\ ops[n - 1].op = "fprintf"
        /\ ops[n].op = "fclose"
        /\ Len(Lines(name)) = 1
        /\ content[Len(content)] = ops[n - 1].item
        /\ Lines(name)[1] = [line |-> "footer", min |-> lo, max |-> hi]

\* C23 as stated: after every successful export, each channel file holds
\* exactly one footer line, after all of its body bytes and written before
\* the file was closed, and the (min, max) in it is exactly the range the
\* channel's bytes were quantized over: the component's range after the
\* symmetric-range policy, or (0, fMagMax) for the magnitude file.
C23_Footers ==
    last.kind = "brick" =>
        \A c \in DOMAIN last.names :
            FooterRecords(last.names[c], RangeUsed(c).min, RangeUsed(c).max)

\* The lines of the script.
Script(fs) == IF ScriptFilename \in DOMAIN fs THEN fs[ScriptFilename].content ELSE <<>>

IsPrefix(s, t) == Len(s) <= Len(t) /\ SubSeq(t, 1, Len(s)) = s

\* The channel files an export of frame uFrame writes, and those of them
\* its data line names: the scalar file, or the X, Y and Z files (the line
\* naming the magnitude file is commented out in the source).
ChannelFiles(uFrame) ==
    IF itemT = "float" THEN <<DataFilename("", uFrame, geom["ugm"])>>
    ELSE VectorDataFilenames(uFrame, geom["ugm"])
NamedFiles(uFrame) ==
    IF itemT = "float" THEN ChannelFiles(uFrame)
    ELSE SubSeq(ChannelFiles(uFrame), 1, 3)

\* One call's effect on the script, given the files its data line should
\* name: the old lines stay as they are, at the front; a successful call
\* adds a comment line with the ranges and then a data line with the
\* dimensions and the files; and while no call has failed the script holds
\* two lines per call, in call order.
ScriptStep(Named(_)) ==
    LET old == Script(files)
        new == Script(files')
        k == Len(exportLog')
    IN  /\ IsPrefix(old, new)
        /\ Len(new) \in {Len(old), Len(old) + 2}
        /\ last'.kind = "brick" =>
              /\ Len(new) = Len(old) + 2
              /\ new[Len(new) - 1] = CommentLine(last'.brick.vMin, last'.brick.vMax)
              /\ new[Len(new)] = DataLine(geom["ugm"], Named(last'.uFrame))
        /\ (\A j \in 1..k : exportLog'[j].result = "ok") =>
              /\ Len(new) = 2 * k
              /\ \A j \in 1..k :
                    /\ new[2 * j - 1].line = "comment"
                    /\ new[2 * j] = DataLine(geom["ugm"], Named(exportLog'[j].uFrame))

\* C24 (amended): the script only grows: no call changes or removes a line
\* written before; each successful export call appends exactly one comment
\* line followed by one data line with the grid dimensions and the call's
\* scalar file or its X, Y and Z files (never the magnitude file); after k
\* successful calls with the same base name the script holds exactly 2k
\* lines, in call order.
C24_ScriptGrows == [][ScriptStep(NamedFiles)]_vars

\* Two successful exports, of frame 1 and then of frame 0, of a grid of
\* vectors: the script holds four lines.
C24_Witness ==
    /\ Len(exportLog) = 2
    /\ exportLog[1] = [uFrame |-> 1, result |-> "ok"]
    /\ exportLog[2] = [uFrame |-> 0, result |-> "ok"]
    /\ itemT = "Vec3"
    /\ Len(Script(files)) = 4

\* C24 as stated: ... each export call appends one comment line followed by
\* one data line naming the grid dimensions and that call's channel files,
\* all of them; after k successful calls the script holds 2k lines in call
\* order, and no line written before is changed or removed.
C24_AsStated == [][ScriptStep(ChannelFiles)]_vars

\* The handles open on a file, and what it holds; a file that does not
\* exist has neither.
HandlesOn(fs, name) == IF name \in DOMAIN fs THEN fs[name].handles ELSE 0
Exists(fs, name) == name \in DOMAIN fs

\* C25 as stated: a call that finds one of its output files (the script or
\* a channel data file) impossible to open aborts, appends nothing to the
\* script, creates and writes no channel file, and leaves no file handle
\* open that it opened.
C25_AbortsClean ==
    [][(exportLog' # exportLog /\ last'.unwritable # {}) =>
          /\ last'.kind = "aborted"
          /\ Script(files') = Script(files)
          /\ \A c \in DOMAIN last'.names :
                /\ Exists(files', last'.names[c]) = Exists(files, last'.names[c])
                /\ Exists(files, last'.names[c]) =>
                      files'[last'.names[c]].content = files[last'.names[c]].content
          /\ \A name \in DOMAIN files' :
                HandlesOn(files', name) = HandlesOn(files, name)]_vars

\* The scalar grid of 4 x 4 x 4 points whose element at offset k holds k.
IsRamp(g) ==
    /\ itemT = "float"
    /\ geom[g].numPoints = <<4, 4, 4>>
    /\ \A k \in DOMAIN mContents[g] : mContents[g][k] = RInt(k)

\* C26: for the scalar grid of 4 x 4 x 4 points whose element at each
\* offset k holds k, the statistics are min = 0 and max = 63, and an export
\* with the symmetric range quantizes over -63..63 and writes the footer
\* "MIN -63 MAX 63".
C26_Ramp ==
    IsRamp("ugm") =>
        /\ StatisticsFloat(mContents["ugm"]) = [min |-> RInt(0), max |-> RInt(63)]
        /\ (last.kind = "brick" /\ ENFORCE_SYMMETRIC_RANGE) =>
              /\ last.brick.stats = [min |-> <<RInt(0)>>, max |-> <<RInt(63)>>]
              /\ last.brick.vMin = <<RInt(-63)>>
              /\ last.brick.vMax = <<RInt(63)>>
              /\ last.brick.vRange = <<RInt(126)>>
              /\ Lines(last.names[1]) =
                    <<[line |-> "footer", min |-> RInt(-63), max |-> RInt(63)]>>

\* The 4 x 4 x 4 grid exported with the symmetric range: 64 bytes and the
\* footer in the file.
C26_Witness ==
    /\ IsRamp("ugm")
    /\ ENFORCE_SYMMETRIC_RANGE
    /\ last.kind = "brick"
    /\ Len(BodyBytes(last.names[1])) = 64
    /\ Len(Lines(last.names[1])) = 1

\* The grid's vortons all moved to the position p.
MovedTo(contents, p) ==
    [offset \in DOMAIN contents |-> [contents[offset] EXCEPT !.mPosition = p]]

\* C27: the vorton export uses the symmetric range whatever the value of
\* ENFORCE_SYMMETRIC_RANGE: for each component the range quantized over and
\* the range in the footer have min = -max; and only the vorticity is
\* exported: with every vorton moved to any other position, the brick and
\* every file written (bytes and footers) are the same.
C27_VortonExport ==
    (itemT = "Vorton" /\ last.kind = "brick") =>
        /\ \A c \in 1..3 :
              /\ last.brick.vMin[c] = RNeg(last.brick.vMax[c])
              /\ Lines(last.names[c])[1].line = "footer"
              /\ Lines(last.names[c])[1].min = RNeg(Lines(last.names[c])[1].max)
        /\ \A offset \in DOMAIN Cells :
              Cells[offset].rVec = mContents[last.g][offset].mVorticity
        /\ \A p \in SamplePositions :
              \E build \in Builds :
                 \E moved \in {VortonBrick(MovedTo(mContents[last.g], p),
                                           build.nanAsInt)} :
                    /\ last.brick = moved
                    /\ files = Run(NoFiles,
                                   VectorCall(geom[last.g], moved, last.uFrame, {},
                                              build).ops)

\* A vorton export with the switch off, of vortons away from the origin
\* whose vorticity statistics are not symmetric.
C27_Witness ==
    /\ itemT = "Vorton"
    /\ last.kind = "brick"
    /\ ~ENFORCE_SYMMETRIC_RANGE
    /\ last.brick.stats.min[1] # RNeg(last.brick.stats.max[1])
    /\ last.brick.stats.min[1] # last.brick.stats.max[1]
    /\ \E offset \in DOMAIN mContents[last.g] :
          mContents[last.g][offset].mPosition # Vec3Of(RZero)

\* The value a byte stands for in a channel over lo..hi:
\* lo + (b / 256) * (hi - lo).
Decode(b, lo, hi) == RAdd(lo, RMul(R(b, 256), RSub(hi, lo)))

\* The stored value, the byte and the range of the channels of the last
\* export: the components, and the magnitude (channel 4) where the brick
\* has one.
AllChannels == Channels \cup (IF last.brick.hasMagnitude THEN {4} ELSE {})
ValueIn(offset, c) == IF c <= 3 THEN Component(offset, c).value ELSE Cells[offset].fMag
ByteIn(offset, c) == IF c <= 3 THEN Component(offset, c).cVal ELSE Cells[offset].mag.cVal

\* Bytes follow the order of the values of a channel.
Monotone(c) ==
    \A o1 \in DOMAIN Cells, o2 \in DOMAIN Cells :
        RLe(ValueIn(o1, c), ValueIn(o2, c)) => ByteIn(o1, c) <= ByteIn(o2, c)

----------------------------------------------------------------------------
(* The renderer. *)

\* The vertices a slice of particles takes: 4*start .. 4*end - 1.
VerticesOfSlice(s) == (nvpp * s.iPclStart)..(nvpp * s.iPclEnd - 1)

\* The vertices the passes of a slice write.
VerticesWrittenBy(s) == UNION {VerticesOf(iPcl) : iPcl \in s.iPclStart..(s.iPclEnd - 1)}

\* What one step does to the vertex buffer and to the renderer while the
\* buffer is being filled.
FillOnly ==
    (call.pc = "fill" /\ call'.pc = "fill") =>
        /\ renderer' = renderer
        /\ \A v \in DOMAIN call.written :
              call'.written[v] # call.written[v] =>
                  \E s \in call.slices \ call'.slices : v \in VerticesOfSlice(s)
        /\ \A v \in DOMAIN call'.written : call'.written[v] <= 1
        /\ \A s1 \in call'.slices, s2 \in call'.slices :
              (s1.iPclEnd <= s2.iPclStart \/ s2.iPclEnd <= s1.iPclStart)
                  => VerticesWrittenBy(s1) \cap VerticesWrittenBy(s2) = {}
        /\ \A s1 \in call'.slices, s2 \in call'.slices :
              s1 = s2 \/ s1.iPclEnd <= s2.iPclStart \/ s2.iPclEnd <= s1.iPclStart

\* At the draw call every vertex of the particles has been written once.
AllWrittenOnce ==
    (call.pc = "fill" /\ call'.pc = "returned") =>
        /\ renderer' = renderer
        /\ DOMAIN call.written = 0..(nvpp * call.numParticles - 1)
        /\ \A v \in DOMAIN call.written : call.written[v] = 1

\* C29: FillVertexBufferSlice(timeNow, view, start, end) writes only vertex
\* buffer entries with index in [4*start, 4*end) and no member of the
\* renderer; slices over disjoint particle ranges, filled concurrently,
\* never write the same vertex; and the slices of one Render call together
\* write each of the 4*numParticles vertices exactly once before the draw
\* call.
C29_SlicesFillBuffer == [][FillOnly /\ AllWrittenOnce]_vars

\* Two slices in progress at once, one of them past its first particle.
C29_Witness ==
    /\ call.pc = "fill"
    /\ \E s1 \in call.slices, s2 \in call.slices :
          /\ s1 # s2
          /\ s1.iPcl > s1.iPclStart
          /\ \E v \in VerticesOfSlice(s2) : call.written[v] = 1

\* The buffer Render fills: the vertex buffer object, or the array.
BufferOf(r) == IF gVboSupported THEN r.mVboNames0 ELSE r.mVertexBuffer

\* C30: at fill time of every Render call with numParticles > 0,
\* mVertexBufferCapacity >= 4*numParticles and mIndicesCapacity >=
\* numParticles; no step makes a capacity smaller; the vertex buffer and
\* the index map are replaced only by a call that asks for more than the
\* capacity; and Render(0) changes no member of the renderer.
C30_Capacities ==
    [][/\ call'.pc = "fill" =>
             /\ renderer'.mVertexBufferCapacity >= nvpp * call'.numParticles
             /\ renderer'.mIndicesCapacity >= call'.numParticles
       /\ renderer'.mVertexBufferCapacity >= renderer.mVertexBufferCapacity
       /\ renderer'.mIndicesCapacity >= renderer.mIndicesCapacity
       /\ BufferOf(renderer') # BufferOf(renderer) =>
             /\ call.pc # "fill" /\ call'.pc = "fill"
             /\ nvpp * call'.numParticles > renderer.mVertexBufferCapacity
       /\ renderer'.mIndices # renderer.mIndices =>
             /\ call.pc # "fill" /\ call'.pc = "fill"
             /\ call'.numParticles > renderer.mIndicesCapacity
       /\ (call'.pc = "returned" /\ call'.numParticles = 0) =>
             renderer' = renderer]_vars

\* A third call of Render, for fewer particles than the buffer allocated
\* by the second call holds, after a first call for fewer than that.
C30_Witness ==
    /\ call.pc = "fill"
    /\ renders = 2
    /\ BufferOf(renderer) = 2
    /\ renderer.mIndices = 2
    /\ renderer.mVertexBufferCapacity > nvpp * call.numParticles
    /\ renderer.mIndicesCapacity > call.numParticles

====
